---- MODULE Spec2Model ----
(***************************************************************************)
(* Model of the Vulkan renderer of v-engine: the frame loop of             *)
(* VulkanRenderer::render / _draw_frame, swapchain recreation, shutdown,   *)
(* and the pure selection functions used while building the swapchain and  *)
(* allocating memory, physical device selection and the start-up sequence  *)
(* of _init_vulkan.  The host thread is one process whose position is pc;  *)
(* the GPU is a second process that completes submitted work.              *)
(***************************************************************************)
EXTENDS Integers, Sequences, FiniteSets, TLC

VARIABLES
    pc,                     \* position of the host thread
    _current_frame,         \* vulkan_renderer.hpp:247
    _framebuffer_resized,   \* vulkan_renderer.hpp:248
    should_close,           \* glfwWindowShouldClose(_window)
    win_size,               \* live framebuffer size of the window <<w, h>>
    width, height,          \* locals of _recreate_swap_chain
    fence,                  \* _frame_in_flight_fences[f] is signaled
    inflight,               \* submissions of slot f not yet completed by the GPU
    cmd,                    \* state of _command_buffers[f]
    image_index,            \* local of _draw_frame
    swapchain,              \* _swap_chain, image views, framebuffers, format, extent
    destroyed,              \* owning members of VulkanRenderer destroyed so far, in order
    window_alive,           \* the GLFW window exists
    trace,                  \* calls, with their results, of the current _draw_frame call
    fn_args, fn_ret,        \* call and result of a selection function under test
    devices,                \* what enumeratePhysicalDevices reports, in order
    _physical_device,       \* index into devices of the selected device, 0 for nullptr
    init_done,              \* steps of _init_vulkan that have returned, in order
    _render_pass,           \* the render pass: the attachment format it was built with
    _image_available_semaphores,    \* slot f's semaphore has a signal enqueued and no wait
    _render_finished_semapahores,   \* the same for the render-finished semaphores
    created,                \* for each member outside the swapchain: the call that assigned it
    resources,              \* buffers, images, memory: live, bound, mapped, layout, one-shot commands
    todo,                   \* calls the resource function that runs has still to make
    presenting              \* slot f: image of the enqueued present whose semaphore wait has not executed, -1 if none

vars == <<pc, _current_frame, _framebuffer_resized, should_close, win_size,
          width, height, fence, inflight, cmd, image_index, swapchain,
          destroyed, window_alive, trace, fn_args, fn_ret,
          devices, _physical_device, init_done, _render_pass,
          _image_available_semaphores, _render_finished_semapahores, created,
          resources, todo, presenting>>

----------------------------------------------------------------------------
(* Program constants                                                       *)

s_max_frames_in_flight == 2

\* u32 (types.hpp) is narrowed to 16 bits: the model checker's integers are
\* 32-bit signed and cannot hold 2^32.  U32Max stands for
\* std::numeric_limits<u32>::max() and U32Mod for the modulus of u32 arithmetic.
U32Max == (2 ^ 16) - 1

U32Mod == U32Max + 1

----------------------------------------------------------------------------
(* Bounds of the model                                                     *)

\* extents checked for the selection functions have components 0..MaxDim
MaxDim == 2

\* capability-reported minImageCount ranges over 1..MaxMinImages in the loop
MaxMinImages == 2

\* saturation of the per-slot count of incomplete submissions
MaxPending == 2

\* image-count capabilities checked for the selection functions: 0..MaxCount
MaxCount == 4

\* number of device memory types checked: 0..MaxMemTypes
MaxMemTypes == 3

\* queue families per device checked for the device functions: 0..MaxFamilies
MaxFamilies == 2

\* physical devices enumerated at start-up: 0..MaxDevices
MaxDevices == 2

Slots == 0 .. (s_max_frames_in_flight - 1)

\* framebuffer sizes of the window in the frame loop: each dimension is zero
\* (minimized) or not, which is all the loop's control flow reads
Sizes == (0 .. 1) \X (0 .. 1)

----------------------------------------------------------------------------
(* Result codes and the assertion helpers                                  *)

\* vk::Result values the calls of the frame loop can return
Success == "Success"

SuboptimalKHR == "SuboptimalKHR"

ErrorOutOfDateKHR == "ErrorOutOfDateKHR"

ErrorDeviceLost == "ErrorDeviceLost"

ErrorSurfaceLostKHR == "ErrorSurfaceLostKHR"

\* results of calls that only succeed or fail (fence wait/reset, command
\* buffer reset/begin/end, queue submit, device waitIdle, object creation)
CallResults == {Success, ErrorDeviceLost}

\* results of acquireNextImageKHR with an unbounded timeout
AcquireResults == {Success, SuboptimalKHR, ErrorOutOfDateKHR, ErrorDeviceLost}

\* results of presentKHR
PresentResults ==
    {Success, SuboptimalKHR, ErrorOutOfDateKHR, ErrorDeviceLost, ErrorSurfaceLostKHR}

\* _vk_expect: the assertion passes only on eSuccess; any other result,
\* with or without a value, ends in core_assert(false, ...)
VkExpect(call_result) == call_result = Success

\* an entry of the call log of the current _draw_frame call: the call, the
\* frame slot it was made for, and the result it returned
Call(op, r) == [op |-> op, slot |-> _current_frame, result |-> r]

Log(ops, r) == trace \o [i \in 1 .. Len(ops) |-> Call(ops[i], r)]

----------------------------------------------------------------------------
(* Owning members of VulkanRenderer, in declaration order.  ~VulkanRenderer *)
(* is defaulted, so the members are destroyed in the reverse of this order. *)

MemberOrder ==
    << "_vk_instance", "_surface", "_device", "_swap_chain",
       "_swap_chain_image_views", "_render_pass", "_descriptor_set_layout",
       "_descriptor_pool", "_descriptor_sets", "_pipeline_Layout",
       "_graphics_pipeline", "_swap_chain_framebuffers", "_command_pool",
       "_command_buffers", "_image_available_semaphores",
       "_render_finished_semapahores", "_frame_in_flight_fences",
       "_vertex_buffer", "_vertex_buffer_memory", "_index_buffer",
       "_index_buffer_memory", "_uniform_buffers", "_uniform_buffers_memory",
       "_texture_image", "_texture_image_memory", "_texture_image_view",
       "_texture_sampler", "_depth_image", "_depth_image_memory",
       "_depth_image_view" >>

Members == {MemberOrder[i] : i \in 1 .. Len(MemberOrder)}

\* the order in which the defaulted destructor destroys the members
Reverse(seq) == [i \in 1 .. Len(seq) |-> seq[Len(seq) + 1 - i]]

DestructionOrder == Reverse(MemberOrder)

Alive == Members \ {destroyed[i] : i \in 1 .. Len(destroyed)}

----------------------------------------------------------------------------
(* Swapchain parameter selection                                           *)

\* vk::SurfaceCapabilitiesKHR::currentExtent when the surface leaves the size
\* to the swapchain: both components are the largest u32
UndefinedExtent == <<U32Max, U32Max>>

\* faulty variant of Clamp: the upper bound is not applied
Clamp_NoUpperBound(v, lo, hi) == IF v < lo THEN lo ELSE v

\* std::clamp(v, lo, hi)
Clamp(v, lo, hi) == IF v < lo THEN lo ELSE IF hi < v THEN hi ELSE v

\* _choose_swap_extent(capabilities, window); window is the size
\* glfwGetFramebufferSize reports
ChooseSwapExtent(capabilities, window) ==
    IF capabilities.currentExtent[1] # U32Max
    THEN capabilities.currentExtent
    ELSE << Clamp(window[1] % U32Mod,
                  capabilities.minImageExtent[1],
                  capabilities.maxImageExtent[1]),
            Clamp(window[2] % U32Mod,
                  capabilities.minImageExtent[2],
                  capabilities.maxImageExtent[2]) >>

\* faulty variant of ChooseImageCount: the count is not clamped to the maximum
ChooseImageCount_NoClamp(capabilities) ==
    (capabilities.minImageCount + 1) % U32Mod

\* faulty variant of ChooseImageCount: a maximum of zero is taken as a bound
ChooseImageCount_ZeroIsBound(capabilities) ==
    LET image_count == (capabilities.minImageCount + 1) % U32Mod
        max_image_count == capabilities.maxImageCount
    IN  IF image_count > max_image_count THEN max_image_count ELSE image_count

\* the image count _create_swap_chain requests (u32 arithmetic)
ChooseImageCount(capabilities) ==
    LET image_count == (capabilities.minImageCount + 1) % U32Mod
        max_image_count == capabilities.maxImageCount
    IN  IF max_image_count > 0 /\ image_count > max_image_count
        THEN max_image_count
        ELSE image_count

PreferredFormat == [format |-> "B8G8R8A8Srgb", colorSpace |-> "SrgbNonlinear"]

\* faulty variant of ChooseSwapSurfaceFormat: the color space is not compared
ChooseSwapSurfaceFormat_AnyColorSpace(available_formats) ==
    LET hits == {i \in 1 .. Len(available_formats) :
                    available_formats[i].format = PreferredFormat.format}
    IN  IF hits # {}
        THEN available_formats[CHOOSE i \in hits : \A j \in hits : i <= j]
        ELSE available_formats[1]

\* _choose_swap_surface_format: the first preferred entry, else entry 0
ChooseSwapSurfaceFormat(available_formats) ==
    LET hits == {i \in 1 .. Len(available_formats) :
                    /\ available_formats[i].format = PreferredFormat.format
                    /\ available_formats[i].colorSpace = PreferredFormat.colorSpace}
    IN  IF hits # {}
        THEN available_formats[CHOOSE i \in hits : \A j \in hits : i <= j]
        ELSE available_formats[1]

\* faulty variant of ChooseSwapPresentMode: only the first entry is compared
ChooseSwapPresentMode_FirstOnly(available_present_modes) ==
    IF available_present_modes # << >> /\ available_present_modes[1] = "Mailbox"
    THEN "Mailbox"
    ELSE "Fifo"

\* _choose_swap_present_mode
ChooseSwapPresentMode(available_present_modes) ==
    IF \E i \in 1 .. Len(available_present_modes) :
            available_present_modes[i] = "Mailbox"
    THEN "Mailbox"
    ELSE "Fifo"

----------------------------------------------------------------------------
(* Memory type selection                                                   *)

\* bit i of a u32 mask: mem_type_filter & (1 << i)
TestBit(mask, i) == (mask \div (2 ^ i)) % 2 = 1

\* faulty variant of TypeCompatible: one common property flag is taken as enough
TypeCompatible_AnyProperty(mem_property_flags, mem_type_filter, properties, i) ==
    /\ TestBit(mem_type_filter, i)
    /\ (mem_property_flags \cap properties) # {}

\* the test of the loop body: type i is allowed by the filter and has every
\* required property
TypeCompatible(mem_property_flags, mem_type_filter, properties, i) ==
    /\ TestBit(mem_type_filter, i)
    /\ (mem_property_flags \cap properties) = properties

\* the scan of _find_memory_type from index i on; memory_types is the
\* device's table (memoryTypeCount entries), each entry its property flags
RECURSIVE ScanMemoryTypes(_, _, _, _)
ScanMemoryTypes(memory_types, mem_type_filter, properties, i) ==
    IF i >= Len(memory_types)
    THEN [fatal |-> TRUE, index |-> U32Max]
    ELSE IF TypeCompatible(memory_types[i + 1], mem_type_filter, properties, i)
         THEN [fatal |-> FALSE, index |-> i]
         ELSE ScanMemoryTypes(memory_types, mem_type_filter, properties, i + 1)

\* _find_memory_type: fatal stands for core_assert(false, ...)
FindMemoryType(memory_types, mem_type_filter, properties) ==
    ScanMemoryTypes(memory_types, mem_type_filter, properties, 0)

----------------------------------------------------------------------------
(* Queue families and physical device selection                            *)

\* the device extensions the renderer requires (vk::KHRSwapchainExtensionName)
s_physical_device_extensions == {"VK_KHR_swapchain"}

\* std::optional<u32>: the empty sequence, or a sequence of one value
NoValue == << >>

HasValue(o) == o # << >>

\* QueueFamilyIndices::is_complete()
IsComplete(indices) ==
    HasValue(indices.graphics_family) /\ HasValue(indices.present_family)

\* device.getSurfaceSupportKHR(family, surface): a property of the family
SurfaceSupport(queue_families, family) == queue_families[family + 1].present

\* faulty variant of PresentFamilyAfter: the index is stored whatever the query answered
PresentFamilyAfter_Unconditional(indices, supported, i) == << i >>

\* if (supported) indices.present_family = i
PresentFamilyAfter(indices, supported, i) ==
    IF supported THEN << i >> ELSE indices.present_family

\* the loop of _find_queue_families from family i on.  The surface support
\* query is made for indices.graphics_family.value(): with no graphics
\* family found so far, value() throws inside a noexcept function and the
\* process terminates.
RECURSIVE ScanQueueFamilies(_, _, _)
ScanQueueFamilies(queue_families, i, indices) ==
    IF i >= Len(queue_families) \/ IsComplete(indices)
    THEN [ fatal |-> FALSE, graphics_family |-> indices.graphics_family,
           present_family |-> indices.present_family ]
    ELSE LET graphics_family == IF queue_families[i + 1].graphics
                                THEN << i >>
                                ELSE indices.graphics_family
         IN  IF ~HasValue(graphics_family)
             THEN [ fatal |-> TRUE, graphics_family |-> NoValue,
                    present_family |-> indices.present_family ]
             ELSE ScanQueueFamilies(queue_families, i + 1,
                    [ graphics_family |-> graphics_family,
                      present_family |->
                          PresentFamilyAfter(indices,
                              SurfaceSupport(queue_families, graphics_family[1]), i) ])

\* _find_queue_families(device, surface)
FindQueueFamilies(device) ==
    ScanQueueFamilies(device.queue_families, 0,
                      [graphics_family |-> NoValue, present_family |-> NoValue])

\* _check_device_extension_support(device)
CheckDeviceExtensionSupport(device) ==
    s_physical_device_extensions \subseteq device.extensions

\* _is_device_suitable(device, surface); fatal when the queue family lookup
\* terminates the process
IsDeviceSuitable(device) ==
    LET indices == FindQueueFamilies(device)
        extensions_supported == CheckDeviceExtensionSupport(device)
        swap_chain_adequate ==
            extensions_supported /\ device.formats > 0 /\ device.present_modes > 0
    IN  [ fatal |-> indices.fatal,
          suitable |-> /\ ~indices.fatal
                       /\ IsComplete(indices)
                       /\ extensions_supported
                       /\ swap_chain_adequate
                       /\ device.samplerAnisotropy ]

\* _rate_device_suitability(device), in u32 arithmetic
RateDeviceSuitability(device) ==
    ((IF device.deviceType = "DiscreteGpu" THEN 1000 ELSE 0)
        + device.maxImageDimension2D) % U32Mod

\* first loop of _create_physical_device from device i on: the first device
\* _is_device_suitable accepts, 0 (nullptr) if there is none
RECURSIVE FirstSuitable(_, _)
FirstSuitable(ds, i) ==
    IF i > Len(ds)
    THEN [fatal |-> FALSE, device |-> 0]
    ELSE LET s == IsDeviceSuitable(ds[i])
         IN  IF s.fatal THEN [fatal |-> TRUE, device |-> 0]
             ELSE IF s.suitable THEN [fatal |-> FALSE, device |-> i]
             ELSE FirstSuitable(ds, i + 1)

\* faulty variant of FirstSuitableRequired: the assertion is missing
FirstSuitableRequired_Skipped(first) == TRUE

\* core_assert(_physical_device, "Failed to find a suitable GPU.")
FirstSuitableRequired(first) == first # 0

\* candidates.rbegin() after every enumerated device was inserted under its
\* score: the highest score, and of equal scores the device inserted last;
\* 0 when nothing was inserted
BestRated(ds) ==
    IF ds = << >>
    THEN 0
    ELSE CHOOSE i \in 1 .. Len(ds) :
            \A j \in 1 .. Len(ds) :
                \/ RateDeviceSuitability(ds[j]) < RateDeviceSuitability(ds[i])
                \/ RateDeviceSuitability(ds[j]) = RateDeviceSuitability(ds[i]) /\ j <= i

\* _create_physical_device after the enumeration: the value _physical_device
\* is left with, or the fatal end of one of the assertions
SelectPhysicalDevice(ds) ==
    LET first == FirstSuitable(ds, 1)
        best == BestRated(ds)
    IN  IF first.fatal \/ ~FirstSuitableRequired(first.device)
        THEN [fatal |-> TRUE, device |-> first.device]
        ELSE IF best = 0 \/ RateDeviceSuitability(ds[best]) = 0
        THEN [fatal |-> TRUE, device |-> first.device]
        ELSE [fatal |-> FALSE, device |-> best]

\* queue families a device can report
FamilyKinds == [graphics : BOOLEAN, present : BOOLEAN]

FamilyLists == UNION { [1 .. n -> FamilyKinds] : n \in 0 .. MaxFamilies }

\* physical devices checked for the device functions
Devices ==
    [ deviceType : {"DiscreteGpu", "IntegratedGpu"},
      maxImageDimension2D : {8192, 16384},
      queue_families : FamilyLists,
      extensions : SUBSET s_physical_device_extensions,
      formats : 0 .. 1,
      present_modes : 0 .. 1,
      samplerAnisotropy : BOOLEAN ]

\* a discrete GPU that passes every suitability test
DefaultDevice ==
    [ deviceType |-> "DiscreteGpu", maxImageDimension2D |-> 16384,
      queue_families |-> << [graphics |-> TRUE, present |-> TRUE] >>,
      extensions |-> s_physical_device_extensions,
      formats |-> 1, present_modes |-> 1, samplerAnisotropy |-> TRUE ]

----------------------------------------------------------------------------
(* The steps of VulkanRenderer::_init_vulkan                               *)

\* faulty variant of InitOrder: the framebuffers are created before the
\* render pass they are created for
InitOrder_FramebuffersFirst ==
    << "_create_vk_instance", "_create_surface", "_create_physical_device",
       "_create_logical_device", "_create_swap_chain", "_create_image_views",
       "_create_framebuffers", "_create_render_pass",
       "_create_descriptor_set_layout", "_create_graphics_pipeline",
       "_create_command_pool", "_create_depth_resources",
       "_create_texture_image", "_create_texture_image_view",
       "_create_texture_sampler", "_load_model", "_create_vertex_buffer",
       "_create_index_buffer", "_create_uniform_buffers",
       "_create_descriptor_pool", "_create_descriptor_sets",
       "_create_command_buffers", "_create_sync_objects" >>

\* the calls of _init_vulkan, in the order of the source
InitOrder ==
    << "_create_vk_instance", "_create_surface", "_create_physical_device",
       "_create_logical_device", "_create_swap_chain", "_create_image_views",
       "_create_render_pass", "_create_descriptor_set_layout",
       "_create_graphics_pipeline", "_create_command_pool",
       "_create_depth_resources", "_create_framebuffers",
       "_create_texture_image", "_create_texture_image_view",
       "_create_texture_sampler", "_load_model", "_create_vertex_buffer",
       "_create_index_buffer", "_create_uniform_buffers",
       "_create_descriptor_pool", "_create_descriptor_sets",
       "_create_command_buffers", "_create_sync_objects" >>

\* the members a step assigns.  _create_depth_resources and _load_model are
\* declared and called but have no definition in the sources; nothing is
\* recorded for them.
Produces(step) ==
    CASE step = "_create_vk_instance" -> {"_vk_instance"}
      [] step = "_create_surface" -> {"_surface"}
      [] step = "_create_physical_device" -> {"_physical_device"}
      [] step = "_create_logical_device" ->
            {"_device", "_graphics_queue", "_present_queue"}
      [] step = "_create_swap_chain" -> {"_swap_chain"}
      [] step = "_create_image_views" -> {"_swap_chain_image_views"}
      [] step = "_create_render_pass" -> {"_render_pass"}
      [] step = "_create_descriptor_set_layout" -> {"_descriptor_set_layout"}
      [] step = "_create_graphics_pipeline" ->
            {"_pipeline_Layout", "_graphics_pipeline"}
      [] step = "_create_command_pool" -> {"_command_pool"}
      [] step = "_create_framebuffers" -> {"_swap_chain_framebuffers"}
      [] step = "_create_texture_image" ->
            {"_texture_image", "_texture_image_memory"}
      [] step = "_create_texture_image_view" -> {"_texture_image_view"}
      [] step = "_create_texture_sampler" -> {"_texture_sampler"}
      [] step = "_create_vertex_buffer" ->
            {"_vertex_buffer", "_vertex_buffer_memory"}
      [] step = "_create_index_buffer" ->
            {"_index_buffer", "_index_buffer_memory"}
      [] step = "_create_uniform_buffers" ->
            {"_uniform_buffers", "_uniform_buffers_memory"}
      [] step = "_create_descriptor_pool" -> {"_descriptor_pool"}
      [] step = "_create_descriptor_sets" -> {"_descriptor_sets"}
      [] step = "_create_command_buffers" -> {"_command_buffers"}
      [] step = "_create_sync_objects" ->
            {"_image_available_semaphores", "_render_finished_semapahores",
             "_frame_in_flight_fences"}
      [] OTHER -> {}

\* the members a step reads, directly or in the helpers it calls
\* (_create_image_view, _create_buffer_unique, _copy_buffer,
\* _begin/_end_single_time_commands, _find_queue_families)
Uses(step) ==
    CASE step = "_create_surface" -> {"_vk_instance"}
      [] step = "_create_physical_device" -> {"_vk_instance", "_surface"}
      [] step = "_create_logical_device" -> {"_surface", "_physical_device"}
      [] step = "_create_swap_chain" -> {"_surface", "_physical_device", "_device"}
      [] step = "_create_image_views" -> {"_device", "_swap_chain"}
      [] step = "_create_render_pass" -> {"_device", "_swap_chain"}
      [] step = "_create_descriptor_set_layout" -> {"_device"}
      [] step = "_create_graphics_pipeline" ->
            {"_device", "_swap_chain", "_render_pass", "_descriptor_set_layout"}
      [] step = "_create_command_pool" -> {"_surface", "_physical_device", "_device"}
      [] step = "_create_framebuffers" ->
            {"_device", "_swap_chain", "_swap_chain_image_views", "_render_pass"}
      [] step = "_create_texture_image" ->
            {"_physical_device", "_device", "_command_pool", "_graphics_queue"}
      [] step = "_create_texture_image_view" -> {"_device", "_texture_image"}
      [] step = "_create_texture_sampler" -> {"_physical_device", "_device"}
      [] step = "_create_vertex_buffer" ->
            {"_physical_device", "_device", "_command_pool", "_graphics_queue"}
      [] step = "_create_index_buffer" ->
            {"_physical_device", "_device", "_command_pool", "_graphics_queue"}
      [] step = "_create_uniform_buffers" -> {"_physical_device", "_device"}
      [] step = "_create_descriptor_pool" -> {"_device"}
      [] step = "_create_descriptor_sets" ->
            {"_device", "_descriptor_set_layout", "_descriptor_pool",
             "_uniform_buffers", "_texture_image_view", "_texture_sampler"}
      [] step = "_create_command_buffers" -> {"_device", "_command_pool"}
      [] step = "_create_sync_objects" -> {"_device"}
      [] OTHER -> {}

\* the members of the swapchain, which _recreate_swap_chain rebuilds
SwapchainMembers ==
    {"_swap_chain", "_swap_chain_image_views", "_swap_chain_framebuffers"}

\* faulty variant of CreatedBy: creating the framebuffers also rebuilds the render pass
CreatedBy_RebuildsRenderPass(c, step, caller) ==
    [m \in DOMAIN c |->
        IF m \in Produces(step)
              \/ (m = "_render_pass" /\ step = "_create_framebuffers")
        THEN caller ELSE c[m]]

\* the members outside the swapchain after step ran, called from caller
\* (_init_vulkan or _recreate_swap_chain): a step assigns what it produces
CreatedBy(c, step, caller) ==
    [m \in DOMAIN c |-> IF m \in Produces(step) THEN caller ELSE c[m]]

\* every member outside the swapchain after _init_vulkan
CreatedByInit ==
    [m \in Members \ SwapchainMembers |->
        IF \E i \in 1 .. Len(InitOrder) : m \in Produces(InitOrder[i])
        THEN "_init_vulkan" ELSE "null"]

----------------------------------------------------------------------------
(* Buffers, images and their memory: the calls of the functions that       *)
(* create and fill them, in the order of the source                        *)

\* an object of the uploader: a member, an element of a per-frame array, or
\* a local of the function that runs
Object(name) == << name, 0 >>

Element(name, i) == << name, i >>

NoObject == Object("none")

\* one call: the operation, the object it is made on, its other argument
Instr(op, obj, arg) == [op |-> op, obj |-> obj, arg |-> arg]

\* a layout transition as the argument of a barrier
Transition(old_layout, new_layout) == << old_layout, new_layout >>

\* the transitions _transition_image_layout has stage and access masks for
SupportedTransitions ==
    { Transition("Undefined", "TransferDstOptimal"),
      Transition("TransferDstOptimal", "ShaderReadOnlyOptimal") }

\* faulty variant of CreateBufferUnique: the memory is allocated but never bound
CreateBufferUnique_NoBind(buffer, buffer_memory) ==
    << Instr("createBuffer", buffer, NoObject),
       Instr("allocateMemory", buffer_memory, NoObject) >>

\* _create_buffer_unique(size, usage, properties, buffer, buffer_memory)
CreateBufferUnique(buffer, buffer_memory) ==
    << Instr("createBuffer", buffer, NoObject),
       Instr("allocateMemory", buffer_memory, NoObject),
       Instr("bindBufferMemory", buffer, buffer_memory) >>

\* _create_image(..., image, image_memory): the function assigns
\* _texture_image and _texture_image_memory whatever references it is given
CreateImage(image, image_memory) ==
    << Instr("createImage", Object("_texture_image"), NoObject),
       Instr("allocateMemory", Object("_texture_image_memory"), NoObject),
       Instr("bindImageMemory", Object("_texture_image"),
             Object("_texture_image_memory")) >>

\* _begin_single_time_commands()
BeginSingleTimeCommands ==
    << Instr("allocateCommandBuffers", Object("command_buffer"), NoObject),
       Instr("commandBuffer.begin", Object("command_buffer"), NoObject) >>

\* faulty variant of EndSingleTimeCommands: the queue is not waited for
EndSingleTimeCommands_NoWait ==
    << Instr("commandBuffer.end", Object("command_buffer"), NoObject),
       Instr("queue.submit", Object("command_buffer"), NoObject),
       Instr("freeCommandBuffers", Object("command_buffer"), NoObject) >>

\* _end_single_time_commands(command_buffer)
EndSingleTimeCommands ==
    << Instr("commandBuffer.end", Object("command_buffer"), NoObject),
       Instr("queue.submit", Object("command_buffer"), NoObject),
       Instr("queue.waitIdle", NoObject, NoObject),
       Instr("freeCommandBuffers", Object("command_buffer"), NoObject) >>

\* _copy_buffer(src_buffer, dst_buffer, size)
CopyBuffer(src_buffer, dst_buffer) ==
    BeginSingleTimeCommands
    \o << Instr("copyBuffer", src_buffer, dst_buffer) >>
    \o EndSingleTimeCommands

\* _copy_buffer_to_image(buffer, image, width, height): the copy names the
\* layout eTransferDstOptimal
CopyBufferToImage(buffer, image) ==
    BeginSingleTimeCommands
    \o << Instr("copyBufferToImage", buffer, image) >>
    \o EndSingleTimeCommands

\* _transition_image_layout(image, format, old_layout, new_layout)
TransitionImageLayout(image, old_layout, new_layout) ==
    BeginSingleTimeCommands
    \o << Instr("pipelineBarrier", image, Transition(old_layout, new_layout)) >>
    \o EndSingleTimeCommands

\* the staging part of an upload: staging buffer, map, memcpy, unmap
FillStagingBuffer(payload) ==
    CreateBufferUnique(Object("staging_buffer"), Object("staging_buffer_memory"))
    \o << Instr("mapMemory", Object("staging_buffer_memory"), NoObject),
          Instr("memcpy", Object("staging_buffer_memory"), payload),
          Instr("unmapMemory", Object("staging_buffer_memory"), NoObject) >>

\* the end of the scope of staging_buffer and staging_buffer_memory: the
\* locals are destroyed in the reverse order of their declaration
StagingScopeExit ==
    << Instr("freeMemory", Object("staging_buffer_memory"), NoObject),
       Instr("destroyBuffer", Object("staging_buffer"), NoObject) >>

\* _create_vertex_buffer()
CreateVertexBuffer ==
    FillStagingBuffer(Object("_vertices"))
    \o CreateBufferUnique(Object("_vertex_buffer"), Object("_vertex_buffer_memory"))
    \o CopyBuffer(Object("staging_buffer"), Object("_vertex_buffer"))
    \o StagingScopeExit

\* _create_index_buffer()
CreateIndexBuffer ==
    FillStagingBuffer(Object("_indices"))
    \o CreateBufferUnique(Object("_index_buffer"), Object("_index_buffer_memory"))
    \o CopyBuffer(Object("staging_buffer"), Object("_index_buffer"))
    \o StagingScopeExit

\* faulty variant of CreateTextureImage: the copy is made before the first transition
CreateTextureImage_CopyFirst ==
    << Instr("stbi_load", Object("pixels"), NoObject) >>
    \o FillStagingBuffer(Object("pixels"))
    \o << Instr("stbi_image_free", Object("pixels"), NoObject) >>
    \o CreateImage(Object("_texture_image"), Object("_texture_image_memory"))
    \o CopyBufferToImage(Object("staging_buffer"), Object("_texture_image"))
    \o TransitionImageLayout(Object("_texture_image"),
                             "Undefined", "TransferDstOptimal")
    \o TransitionImageLayout(Object("_texture_image"),
                             "TransferDstOptimal", "ShaderReadOnlyOptimal")
    \o StagingScopeExit

\* _create_texture_image()
CreateTextureImage ==
    << Instr("stbi_load", Object("pixels"), NoObject) >>
    \o FillStagingBuffer(Object("pixels"))
    \o << Instr("stbi_image_free", Object("pixels"), NoObject) >>
    \o CreateImage(Object("_texture_image"), Object("_texture_image_memory"))
    \o TransitionImageLayout(Object("_texture_image"),
                             "Undefined", "TransferDstOptimal")
    \o CopyBufferToImage(Object("staging_buffer"), Object("_texture_image"))
    \o TransitionImageLayout(Object("_texture_image"),
                             "TransferDstOptimal", "ShaderReadOnlyOptimal")
    \o StagingScopeExit

\* the body of the loop of _create_uniform_buffers for slot i
UniformBufferOf(i) ==
    CreateBufferUnique(Element("_uniform_buffers", i),
                       Element("_uniform_buffers_memory", i))
    \o << Instr("mapMemory", Element("_uniform_buffers_memory", i), NoObject) >>

RECURSIVE UniformBuffersFrom(_)
UniformBuffersFrom(i) ==
    IF i < s_max_frames_in_flight
    THEN UniformBufferOf(i) \o UniformBuffersFrom(i + 1)
    ELSE << >>

\* _create_uniform_buffers()
CreateUniformBuffers == UniformBuffersFrom(0)

\* the calls of a step of _init_vulkan that creates buffers or images
ProgramOf(step) ==
    CASE step = "_create_texture_image" -> CreateTextureImage
      [] step = "_create_vertex_buffer" -> CreateVertexBuffer
      [] step = "_create_index_buffer" -> CreateIndexBuffer
      [] step = "_create_uniform_buffers" -> CreateUniformBuffers
      [] OTHER -> << >>

\* the calls whose result goes through _vk_expect or core_assert
Fallible ==
    { "createBuffer", "allocateMemory", "bindBufferMemory", "createImage",
      "bindImageMemory", "mapMemory", "allocateCommandBuffers",
      "commandBuffer.begin", "commandBuffer.end", "queue.submit",
      "queue.waitIdle", "stbi_load" }

\* the commands recorded into the one-shot command buffer
Commands == {"copyBuffer", "copyBufferToImage", "pipelineBarrier"}

\* no object exists; the image layout is that of a new image
NoResources ==
    [ live |-> {}, bound |-> {}, mapped |-> {}, layout |-> "Undefined",
      recorded |-> << >>, pending |-> << >>, failed |-> FALSE ]

\* the image layout after the GPU has executed the commands
RECURSIVE LayoutAfter(_, _)
LayoutAfter(commands, layout) ==
    IF commands = << >> THEN layout
    ELSE LayoutAfter(Tail(commands),
                     IF Head(commands).op = "pipelineBarrier"
                     THEN Head(commands).arg[2] ELSE layout)

\* the GPU executes the submitted one-shot command buffer
GpuExecuted(u) ==
    [u EXCEPT !.layout = LayoutAfter(u.pending, u.layout), !.pending = << >>]

\* the call ends the process without a failing result: the assertion of
\* _transition_image_layout on the pair of layouts
Asserts(instr) ==
    instr.op = "pipelineBarrier" /\ instr.arg \notin SupportedTransitions

\* the objects after a call that returned successfully, or the mark that an
\* assertion in the call ended the process
Exec(u, instr) ==
    CASE Asserts(instr) -> [u EXCEPT !.failed = TRUE]
      [] instr.op \in {"createBuffer", "createImage", "allocateMemory", "stbi_load"} ->
            [u EXCEPT !.live = @ \cup {instr.obj},
                      !.bound = {b \in @ : b[1] # instr.obj /\ b[2] # instr.obj}]
      [] instr.op \in {"bindBufferMemory", "bindImageMemory"} ->
            [u EXCEPT !.bound = @ \cup {<< instr.obj, instr.arg >>}]
      [] instr.op = "mapMemory" -> [u EXCEPT !.mapped = @ \cup {instr.obj}]
      [] instr.op = "unmapMemory" -> [u EXCEPT !.mapped = @ \ {instr.obj}]
      [] instr.op = "allocateCommandBuffers" ->
            [u EXCEPT !.live = @ \cup {instr.obj}, !.recorded = << >>]
      [] instr.op \in Commands -> [u EXCEPT !.recorded = Append(@, instr)]
      [] instr.op = "queue.submit" -> [u EXCEPT !.pending = @ \o u.recorded]
      [] instr.op \in {"freeMemory", "destroyBuffer", "freeCommandBuffers",
                       "stbi_image_free"} ->
            [u EXCEPT !.live = @ \ {instr.obj}, !.mapped = @ \ {instr.obj}]
      [] OTHER -> u

\* the objects after the calls from the i-th on ran, every call returning
\* eSuccess and queue.waitIdle returning once the GPU has executed what was
\* submitted; the run stops at an assertion
RECURSIVE Ran(_, _, _)
Ran(program, i, u) ==
    IF i > Len(program) \/ u.failed THEN u
    ELSE Ran(program, i + 1,
             Exec(IF program[i].op = "queue.waitIdle" THEN GpuExecuted(u) ELSE u,
                  program[i]))

\* the objects after the steps of _init_vulkan from the i-th on
RECURSIVE RanSteps(_, _, _)
RanSteps(steps, i, u) ==
    IF i > Len(steps) \/ u.failed THEN u
    ELSE RanSteps(steps, i + 1, Ran(ProgramOf(steps[i]), 1, u))

----------------------------------------------------------------------------
(* State after VulkanRenderer::init                                        *)

winVars == <<_framebuffer_resized, should_close, win_size>>

rcLocals == <<width, height>>

gpuVars == <<fence, inflight>>

lifeVars == <<destroyed, window_alive>>

fnVars == <<fn_args, fn_ret>>

initVars == <<devices, _physical_device, init_done, _render_pass>>

semVars == <<_image_available_semaphores, _render_finished_semapahores>>

uplVars == <<resources, todo>>

resVars == <<semVars, created, uplVars, presenting>>

\* no present has been enqueued whose semaphore wait is still to execute
NotPresenting == -1

NoCall == [fn |-> "none"]

\* surface capabilities the driver can report in the frame loop for a window
\* of the given size
LoopCaps(window) ==
    { c \in [ minImageCount : 1 .. MaxMinImages,
              maxImageCount : 0 .. (MaxMinImages + 1),
              currentExtent : {UndefinedExtent, window},
              minImageExtent : {<<1, 1>>},
              maxImageExtent : {<<1, 1>>} ] :
        c.maxImageCount = 0 \/ c.maxImageCount >= c.minImageCount }

\* surface format lists the driver can report in the frame loop
LoopFormats ==
    { << PreferredFormat >>,
      << [format |-> "R8G8B8A8Unorm", colorSpace |-> "SrgbNonlinear"],
         PreferredFormat >>,
      << [format |-> "R8G8B8A8Unorm", colorSpace |-> "SrgbNonlinear"] >> }

\* what is left of the objects built from the chain that was replaced
Aged(built_from) == IF built_from = "none" THEN "none" ELSE "previous"

\* the swapchain state _create_swap_chain stores for the given query results.
\* The views and framebuffers of the previous chain are what is left of them.
BuiltChain(capabilities, formats, window, old) ==
    [ chain |-> "live",
      image_count |-> ChooseImageCount(capabilities),
      n_images |-> ChooseImageCount(capabilities),
      format |-> ChooseSwapSurfaceFormat(formats).format,
      extent |-> ChooseSwapExtent(capabilities, window),
      views |-> old.views, n_views |-> old.n_views,
      view_images |-> Aged(old.view_images),
      framebuffers |-> old.framebuffers, n_framebuffers |-> old.n_framebuffers,
      framebuffer_views |-> Aged(old.framebuffer_views),
      framebuffer_extent |-> old.framebuffer_extent ]

\* _create_image_views: one view per swapchain image, view i on image i
BuiltViews(sc) ==
    [sc EXCEPT !.views = "live", !.n_views = sc.n_images, !.view_images = "current"]

\* faulty variant of BuiltFramebuffers: the vector keeps the size it had
BuiltFramebuffers_NoResize(sc) ==
    [sc EXCEPT !.framebuffers = "live",
               !.framebuffer_views = sc.view_images,
               !.framebuffer_extent = sc.extent]

\* _create_framebuffers: one framebuffer per image view, framebuffer i on
\* view i, with the width and height of _swap_chain_extent
BuiltFramebuffers(sc) ==
    [sc EXCEPT !.framebuffers = "live", !.n_framebuffers = sc.n_views,
               !.framebuffer_views = sc.view_images,
               !.framebuffer_extent = sc.extent]

NoChain ==
    [ chain |-> "null", image_count |-> 0, n_images |-> 0, format |-> "Undefined",
      extent |-> <<0, 0>>, views |-> "null", n_views |-> 0, view_images |-> "none",
      framebuffers |-> "null", n_framebuffers |-> 0, framebuffer_views |-> "none",
      framebuffer_extent |-> <<0, 0>> ]

\* the window Renderer::_init_glfw creates is not minimized
InitialSize == <<1, 1>>

\* the state VulkanRenderer::init leaves for a surface that reported
\* capabilities c and formats fs; every fence is created signaled
InitState(c, fs) ==
    /\ _current_frame = 0
    /\ _framebuffer_resized = FALSE
    /\ should_close = FALSE
    /\ win_size = InitialSize
    /\ width = 0
    /\ height = 0
    /\ fence = [f \in Slots |-> TRUE]
    /\ inflight = [f \in Slots |-> 0]
    /\ cmd = [f \in Slots |-> "initial"]
    /\ image_index = 0
    /\ swapchain = BuiltFramebuffers(BuiltViews(BuiltChain(c, fs, InitialSize, NoChain)))
    /\ destroyed = << >>
    /\ window_alive = TRUE
    /\ trace = << >>
    /\ devices = << DefaultDevice >>
    /\ _physical_device = 1
    /\ init_done = InitOrder
    /\ _render_pass = [format |-> ChooseSwapSurfaceFormat(fs).format]
    /\ _image_available_semaphores = [f \in Slots |-> FALSE]
    /\ _render_finished_semapahores = [f \in Slots |-> FALSE]
    /\ created = CreatedByInit
    /\ resources = RanSteps(InitOrder, 1, NoResources)
    /\ todo = << >>
    /\ presenting = [f \in Slots |-> NotPresenting]

Init ==
    /\ pc = "loop_check"
    /\ \E c \in LoopCaps(InitialSize), fs \in LoopFormats : InitState(c, fs)
    /\ fn_args = NoCall
    /\ fn_ret = NoCall

----------------------------------------------------------------------------
(* Window events                                                           *)

\* glfwGetWindowUserPointer(window): no call of glfwSetWindowUserPointer
\* exists in the sources, so the pointer has its initial value NULL
WindowUserPointer == "null"

\* app->set_resized(true) with a null app is undefined: the store faults and
\* the process ends, or it lands outside the renderer and execution goes on
NullStoreOutcomes == {"fault", "stray"}

\* s_frame_buffer_resize_callback, after which the host continues at next
ResizeCallback(next) ==
    IF WindowUserPointer = "renderer"
    THEN _framebuffer_resized' = TRUE /\ pc' = next
    ELSE /\ _framebuffer_resized' = _framebuffer_resized
         /\ \E o \in NullStoreOutcomes :
               pc' = (IF o = "fault" THEN "fatal" ELSE next)

\* the events one glfwPollEvents / glfwWaitEvents call delivers: the
\* framebuffer size becomes s (s_frame_buffer_resize_callback runs when it
\* changed), and the user may have asked to close the window
ProcessEvents(s, close, next) ==
    /\ win_size' = s
    /\ should_close' = (should_close \/ close)
    /\ IF s # win_size
       THEN ResizeCallback(next)
       ELSE _framebuffer_resized' = _framebuffer_resized /\ pc' = next

----------------------------------------------------------------------------
(* VulkanRenderer::render                                                  *)

\* while (!glfwWindowShouldClose(_window)); the call log restarts with the
\* next _draw_frame call
RenderLoopCheck ==
    /\ pc = "loop_check"
    /\ pc' = (IF should_close THEN "exit" ELSE "poll_events")
    /\ trace' = << >>
    /\ UNCHANGED <<_current_frame, winVars, rcLocals, gpuVars, cmd, image_index,
                   swapchain, lifeVars, fnVars, initVars, resVars>>

\* glfwPollEvents()
PollEvents ==
    /\ pc = "poll_events"
    /\ \E s \in Sizes, close \in BOOLEAN : ProcessEvents(s, close, "wait_fence")
    /\ UNCHANGED <<_current_frame, rcLocals, gpuVars, cmd, image_index,
                   swapchain, lifeVars, trace, fnVars, initVars, resVars>>

----------------------------------------------------------------------------
(* VulkanRenderer::_draw_frame                                             *)

\* every queue operation has completed: the submissions, and the semaphore
\* waits of the presents
Idle == \A f \in Slots : inflight[f] = 0 /\ presenting[f] = NotPresenting

\* the presentation engine hands out image i: no present of it is enqueued
\* whose semaphore wait has still to execute
Released(i) == \A f \in Slots : presenting[f] # i

\* a semaphore of the renderer: the member array and the frame slot
ImageAvailable(f) == << "_image_available_semaphores", f >>

RenderFinished(f) == << "_render_finished_semapahores", f >>

NoSemaphore == << >>

\* an entry of the call log for a call that names semaphores or a fence
SyncCall(op, r, info) ==
    [op |-> op, slot |-> _current_frame, result |-> r, waits |-> info.waits,
     signals |-> info.signals, fence |-> info.fence]

\* the semaphore acquireNextImageKHR is given in an iteration on slot f; no fence
AcquireInfo(f) ==
    [waits |-> NoSemaphore, signals |-> ImageAvailable(f), fence |-> -1]

\* faulty variant of SubmitInfo: the submission waits on the render-finished semaphore
SubmitInfo_WaitsRenderFinished(f) ==
    [waits |-> RenderFinished(f), stage |-> "ColorAttachmentOutput",
     signals |-> RenderFinished(f), fence |-> f]

\* faulty variant of SubmitInfo: the fence of the other slot is given to the submission
SubmitInfo_FenceOfOtherSlot(f) ==
    [waits |-> ImageAvailable(f), stage |-> "ColorAttachmentOutput",
     signals |-> RenderFinished(f), fence |-> (f + 1) % s_max_frames_in_flight]

\* submit_info and the fence argument of the submission of slot f
SubmitInfo(f) ==
    [waits |-> ImageAvailable(f), stage |-> "ColorAttachmentOutput",
     signals |-> RenderFinished(f), fence |-> f]

\* present_info of an iteration on slot f
PresentInfo(f) ==
    [waits |-> RenderFinished(f), signals |-> NoSemaphore, fence |-> -1]

\* a semaphore array after a call that enqueues a wait and a signal: the
\* wait consumes the signal of the semaphore it names
Enqueued(array, name, info) ==
    [f \in Slots |->
        IF info.signals = << name, f >> THEN TRUE
        ELSE IF info.waits = << name, f >> THEN FALSE
        ELSE array[f]]

\* both arrays after a call with the given semaphores was enqueued
EnqueueSync(info) ==
    /\ _image_available_semaphores' =
          Enqueued(_image_available_semaphores, "_image_available_semaphores", info)
    /\ _render_finished_semapahores' =
          Enqueued(_render_finished_semapahores, "_render_finished_semapahores", info)

\* faulty variant of FenceWaitReturns: the wait returns once the fence of any slot is signaled
FenceWaitReturns_AnyFence(f) == \E g \in Slots : fence[g]

\* faulty variant of FenceWaitReturns: the wait returns without the fence being signaled
FenceWaitReturns_NoWait(f) == TRUE

\* waitForFences with wait_for_all and an unbounded timeout returns eSuccess
\* only once the fence of slot f is signaled
FenceWaitReturns(f) == fence[f]

\* waitForFences(_frame_in_flight_fences[_current_frame], true, UINT64_MAX)
WaitForFences ==
    /\ pc = "wait_fence"
    /\ \E r \in CallResults :
          /\ IF VkExpect(r)
             THEN FenceWaitReturns(_current_frame) /\ pc' = "acquire"
             ELSE pc' = "fatal"
          /\ trace' = Log(<< "waitForFences" >>, r)
    /\ UNCHANGED <<_current_frame, winVars, rcLocals, gpuVars, cmd, image_index,
                   swapchain, lifeVars, fnVars, initVars, resVars>>

\* image_index = _vk_expect(acquireNextImageKHR(...))
AcquireNextImage ==
    /\ pc = "acquire"
    /\ \E r \in AcquireResults, i \in 0 .. (swapchain.n_images - 1) :
          /\ IF VkExpect(r)
             THEN Released(i) /\ image_index' = i /\ pc' = "reset_fence"
             ELSE image_index' = image_index /\ pc' = "fatal"
          /\ IF r \in {Success, SuboptimalKHR}
             THEN EnqueueSync(AcquireInfo(_current_frame))
             ELSE UNCHANGED semVars
          /\ trace' = Append(trace, SyncCall("acquireNextImageKHR", r,
                                              AcquireInfo(_current_frame)))
    /\ UNCHANGED <<_current_frame, winVars, rcLocals, gpuVars, cmd,
                   swapchain, lifeVars, fnVars, initVars, created, uplVars, presenting>>

\* resetFences(_frame_in_flight_fences[_current_frame])
ResetFences ==
    /\ pc = "reset_fence"
    /\ \E r \in CallResults :
          /\ IF VkExpect(r)
             THEN fence' = [fence EXCEPT ![_current_frame] = FALSE] /\ pc' = "reset_cmd"
             ELSE fence' = fence /\ pc' = "fatal"
          /\ trace' = Log(<< "resetFences" >>, r)
    /\ UNCHANGED <<_current_frame, winVars, rcLocals, inflight, cmd, image_index,
                   swapchain, lifeVars, fnVars, initVars, resVars>>

\* _command_buffers[_current_frame]->reset()
ResetCommandBuffer ==
    /\ pc = "reset_cmd"
    /\ \E r \in CallResults :
          /\ IF VkExpect(r)
             THEN cmd' = [cmd EXCEPT ![_current_frame] = "initial"] /\ pc' = "record"
             ELSE cmd' = cmd /\ pc' = "fatal"
          /\ trace' = Log(<< "commandBuffer.reset" >>, r)
    /\ UNCHANGED <<_current_frame, winVars, rcLocals, gpuVars, image_index,
                   swapchain, lifeVars, fnVars, initVars, resVars>>

\* _record_command_buffer(image_index): begin ... end
RecordCommandBuffer ==
    /\ pc = "record"
    /\ \E r \in CallResults :
          /\ IF VkExpect(r)
             THEN /\ cmd' = [cmd EXCEPT ![_current_frame] = "executable"]
                  /\ pc' = "update_ubo"
             ELSE /\ cmd' = [cmd EXCEPT ![_current_frame] = "invalid"]
                  /\ pc' = "fatal"
          /\ trace' = Log(<< "commandBuffer.record" >>, r)
    /\ UNCHANGED <<_current_frame, winVars, rcLocals, gpuVars, image_index,
                   swapchain, lifeVars, fnVars, initVars, resVars>>

\* faulty variant of UniformWriteTarget: the update writes the buffer of the other slot
UniformWriteTarget_OtherSlot(current_image) ==
    Element("_uniform_buffers_memory", (current_image + 1) % s_max_frames_in_flight)

\* the memory _uniform_buffers_mapped[current_image] points into
UniformWriteTarget(current_image) ==
    Element("_uniform_buffers_memory", current_image)

\* _update_uniform_buffer(_current_frame): memcpy through the pointer of
\* the slot; through a pointer that is not a mapping the write is undefined
UpdateUniformBuffer ==
    /\ pc = "update_ubo"
    /\ pc' \in (IF UniformWriteTarget(_current_frame) \in resources.mapped
                THEN {"submit"} ELSE {"submit", "fatal"})
    /\ trace' = Append(trace, [op |-> "uniformBuffer.memcpy", slot |-> _current_frame,
                               result |-> Success,
                               target |-> UniformWriteTarget(_current_frame)])
    /\ UNCHANGED <<_current_frame, winVars, rcLocals, gpuVars, cmd, image_index,
                   swapchain, lifeVars, fnVars, initVars, resVars>>

\* _graphics_queue.submit(submit_info, _frame_in_flight_fences[_current_frame])
QueueSubmit ==
    /\ pc = "submit"
    /\ \E r \in CallResults :
          /\ IF VkExpect(r)
             THEN /\ inflight' = [inflight EXCEPT ![SubmitInfo(_current_frame).fence] =
                                     IF @ < MaxPending THEN @ + 1 ELSE @]
                  /\ pc' = "present"
             ELSE inflight' = inflight /\ pc' = "fatal"
          /\ IF VkExpect(r)
             THEN EnqueueSync(SubmitInfo(_current_frame))
             ELSE UNCHANGED semVars
          /\ trace' = Append(trace, SyncCall("queue.submit", r,
                                              SubmitInfo(_current_frame)))
    /\ UNCHANGED <<_current_frame, winVars, rcLocals, fence, cmd, image_index,
                   swapchain, lifeVars, fnVars, initVars, created, uplVars, presenting>>

\* the test on result_present and the resize flag that decides on recreation
NeedsRecreate(r) ==
    r = ErrorOutOfDateKHR \/ r = SuboptimalKHR \/ _framebuffer_resized

\* faulty variant of FrameOnReturn: the frame index advances before the recreation test
FrameOnReturn_Advances(recreate) ==
    (_current_frame + 1) % s_max_frames_in_flight

\* faulty variant of FrameOnReturn: the frame index is never advanced
FrameOnReturn_Stays(recreate) == _current_frame

\* _current_frame when _draw_frame returns: unchanged on the recreation path
\* (early return), advanced otherwise
FrameOnReturn(recreate) ==
    IF recreate THEN _current_frame
                ELSE (_current_frame + 1) % s_max_frames_in_flight

\* result_present = _present_queue.presentKHR(present_info), the test that
\* follows it, and either the call of _recreate_swap_chain or the advance of
\* _current_frame and the return
QueuePresent ==
    /\ pc = "present"
    /\ \E r \in PresentResults :
          /\ IF NeedsRecreate(r)
             THEN /\ _framebuffer_resized' = FALSE
                  /\ pc' = "rc_get_size"
                  /\ image_index' = image_index
             ELSE /\ _framebuffer_resized' = _framebuffer_resized
                  /\ pc' = "loop_check"
                  /\ image_index' = 0
          /\ _current_frame' = FrameOnReturn(NeedsRecreate(r))
          /\ EnqueueSync(PresentInfo(_current_frame))
          /\ presenting' = [presenting EXCEPT ![_current_frame] = image_index]
          /\ trace' = Append(trace, SyncCall("queue.presentKHR", r,
                                              PresentInfo(_current_frame)))
    /\ UNCHANGED <<should_close, win_size, rcLocals, gpuVars, cmd,
                   swapchain, lifeVars, fnVars, initVars, created, uplVars>>

----------------------------------------------------------------------------
(* VulkanRenderer::_recreate_swap_chain                                    *)

\* glfwGetFramebufferSize(_window, &width, &height) before the loop, and the
\* first test of the loop condition
RecreateGetSize ==
    /\ pc = "rc_get_size"
    /\ width' = win_size[1]
    /\ height' = win_size[2]
    /\ pc' = (IF win_size[1] = 0 \/ win_size[2] = 0 THEN "rc_loop_get_size"
                                                  ELSE "rc_wait_idle")
    /\ UNCHANGED <<_current_frame, winVars, gpuVars, cmd, image_index,
                   swapchain, lifeVars, trace, fnVars, initVars, resVars>>

\* loop body, first statement: glfwGetFramebufferSize(_window, &width, &height)
RecreateLoopGetSize ==
    /\ pc = "rc_loop_get_size"
    /\ width' = win_size[1]
    /\ height' = win_size[2]
    /\ pc' = "rc_wait_events"
    /\ UNCHANGED <<_current_frame, winVars, gpuVars, cmd, image_index,
                   swapchain, lifeVars, trace, fnVars, initVars, resVars>>

\* loop body, second statement: glfwWaitEvents(), then the loop condition on
\* the width and height read before the wait
RecreateWaitEvents ==
    /\ pc = "rc_wait_events"
    /\ \E s \in Sizes, close \in BOOLEAN :
          ProcessEvents(s, close,
                        IF width = 0 \/ height = 0 THEN "rc_loop_get_size"
                                                   ELSE "rc_wait_idle")
    /\ UNCHANGED <<_current_frame, rcLocals, gpuVars, cmd, image_index,
                   swapchain, lifeVars, trace, fnVars, initVars, resVars>>

\* _vk_expect(_device->waitIdle(), ...): returns once no submission is pending
DeviceWaitIdle ==
    /\ pc = "rc_wait_idle"
    /\ \E r \in CallResults :
          /\ IF VkExpect(r)
             THEN Idle /\ pc' = "rc_cleanup"
             ELSE pc' = "fatal"
          /\ trace' = Log(<< "device.waitIdle" >>, r)
    /\ UNCHANGED <<_current_frame, winVars, rcLocals, gpuVars, cmd, image_index,
                   swapchain, lifeVars, fnVars, initVars, resVars>>

\* what a second destroy call on a handle can do: end the process, or pass
\* unnoticed
DoubleDestroyOutcomes == {"fault", "ignored"}

\* the assignment of a new unique handle to a wrapper whose handle is in
\* state held: the wrapper destroys the handle it holds, which is a second
\* destroy call when _cleanup_swap_chain has destroyed it already; the set
\* of places the host can be at after the assignment
Reassigned(held, next) ==
    IF held = "destroyed"
    THEN {IF o = "fault" THEN "fatal" ELSE next : o \in DoubleDestroyOutcomes}
    ELSE {next}

\* the swapchain objects after _cleanup_swap_chain
CleanedUp(sc) ==
    [sc EXCEPT !.framebuffers = "destroyed", !.views = "destroyed", !.chain = "destroyed"]

\* _cleanup_swap_chain(): framebuffers, then image views, then the chain
CleanupSwapChain ==
    /\ pc = "rc_cleanup"
    /\ swapchain' = CleanedUp(swapchain)
    /\ trace' = Log(<< "destroyFramebuffer", "destroyImageView", "destroySwapchainKHR" >>,
                    Success)
    /\ pc' = "rc_create_swap_chain"
    /\ UNCHANGED <<_current_frame, winVars, rcLocals, gpuVars, cmd, image_index,
                   lifeVars, fnVars, initVars, resVars>>

\* _create_swap_chain(): query the surface, choose the parameters, create the
\* chain, fetch its images, store format and extent
CreateSwapChain ==
    /\ pc = "rc_create_swap_chain"
    /\ \E c \in LoopCaps(win_size), fs \in LoopFormats, r \in CallResults :
          /\ IF VkExpect(r)
             THEN /\ swapchain' = BuiltChain(c, fs, win_size, swapchain)
                  /\ created' = CreatedBy(created, "_create_swap_chain", "_recreate_swap_chain")
                  /\ pc' \in Reassigned(swapchain.chain, "rc_create_image_views")
             ELSE /\ swapchain' = swapchain
                  /\ created' = created
                  /\ pc' = "fatal"
          /\ trace' = Log(<< "createSwapchainKHR" >>, r)
    /\ UNCHANGED <<_current_frame, winVars, rcLocals, gpuVars, cmd, image_index,
                   lifeVars, fnVars, initVars, semVars, uplVars, presenting>>

\* _create_image_views()
CreateImageViews ==
    /\ pc = "rc_create_image_views"
    /\ \E r \in CallResults :
          /\ IF VkExpect(r)
             THEN /\ swapchain' = BuiltViews(swapchain)
                  /\ created' = CreatedBy(created, "_create_image_views", "_recreate_swap_chain")
                  /\ pc' \in Reassigned(swapchain.views, "rc_create_framebuffers")
             ELSE /\ swapchain' = swapchain
                  /\ created' = created
                  /\ pc' = "fatal"
          /\ trace' = Log(<< "createImageView" >>, r)
    /\ UNCHANGED <<_current_frame, winVars, rcLocals, gpuVars, cmd, image_index,
                   lifeVars, fnVars, initVars, semVars, uplVars, presenting>>

\* _create_framebuffers(), then the return of _recreate_swap_chain and of
\* _draw_frame
CreateFramebuffers ==
    /\ pc = "rc_create_framebuffers"
    /\ \E r \in CallResults :
          /\ IF VkExpect(r)
             THEN /\ swapchain' = BuiltFramebuffers(swapchain)
                  /\ created' = CreatedBy(created, "_create_framebuffers",
                                          "_recreate_swap_chain")
                  /\ pc' \in Reassigned(swapchain.framebuffers, "loop_check")
                  /\ image_index' = 0
                  /\ width' = 0
                  /\ height' = 0
             ELSE /\ swapchain' = swapchain
                  /\ created' = created
                  /\ pc' = "fatal"
                  /\ UNCHANGED <<image_index, width, height>>
          /\ trace' = Log(<< "createFramebuffer" >>, r)
    /\ UNCHANGED <<_current_frame, winVars, gpuVars, cmd, lifeVars, fnVars, initVars, semVars, uplVars, presenting>>

----------------------------------------------------------------------------
(* Shutdown: core::run returns, ~Renderer calls cleanup(), then the         *)
(* defaulted ~VulkanRenderer destroys the members                           *)

\* VulkanRenderer::cleanup(): glfwDestroyWindow, glfwTerminate
Cleanup ==
    /\ pc = "exit"
    /\ window_alive' = FALSE
    /\ pc' = "destroy_members"
    /\ UNCHANGED <<_current_frame, winVars, rcLocals, gpuVars, cmd, image_index,
                   swapchain, destroyed, trace, fnVars, initVars, resVars>>

\* ~VulkanRenderer: every member, last declared first; the unique handles of
\* the swapchain objects destroy what they hold
DestroyMembers ==
    /\ pc = "destroy_members"
    /\ destroyed' = destroyed \o DestructionOrder
    /\ swapchain' = CleanedUp(swapchain)
    /\ pc' = "done"
    /\ UNCHANGED <<_current_frame, winVars, rcLocals, gpuVars, cmd, image_index,
                   window_alive, trace, fnVars, initVars, resVars>>

----------------------------------------------------------------------------
(* The GPU                                                                 *)

\* the pending submission of slot f completes: its fence is signaled
GpuComplete(f) ==
    /\ inflight[f] > 0
    /\ "_device" \in Alive
    /\ pc # "fatal"
    /\ inflight' = [inflight EXCEPT ![f] = @ - 1]
    /\ fence' = [fence EXCEPT ![f] = TRUE]
    /\ UNCHANGED <<pc, _current_frame, winVars, rcLocals, cmd, image_index,
                   swapchain, lifeVars, trace, fnVars, initVars, resVars>>

\* the presentation engine executes the semaphore wait of the present
\* enqueued for slot f, once the submission that signals the semaphore has
\* completed
PresentWaitExecutes(f) ==
    /\ presenting[f] # NotPresenting
    /\ inflight[f] = 0
    /\ "_device" \in Alive
    /\ pc # "fatal"
    /\ presenting' = [presenting EXCEPT ![f] = NotPresenting]
    /\ UNCHANGED <<pc, _current_frame, winVars, rcLocals, gpuVars, cmd, image_index,
                   swapchain, lifeVars, trace, fnVars, initVars, semVars, created,
                   uplVars>>

----------------------------------------------------------------------------

Next ==
    \/ RenderLoopCheck
    \/ PollEvents
    \/ WaitForFences
    \/ AcquireNextImage
    \/ ResetFences
    \/ ResetCommandBuffer
    \/ RecordCommandBuffer
    \/ UpdateUniformBuffer
    \/ QueueSubmit
    \/ QueuePresent
    \/ RecreateGetSize
    \/ RecreateLoopGetSize
    \/ RecreateWaitEvents
    \/ DeviceWaitIdle
    \/ CleanupSwapChain
    \/ CreateSwapChain
    \/ CreateImageViews
    \/ CreateFramebuffers
    \/ Cleanup
    \/ DestroyMembers
    \/ \E f \in Slots : GpuComplete(f)
    \/ \E f \in Slots : PresentWaitExecutes(f)

Spec == Init /\ [][Next]_vars

\* a step of the host thread
HostStep ==
    \/ RenderLoopCheck
    \/ PollEvents
    \/ WaitForFences
    \/ AcquireNextImage
    \/ ResetFences
    \/ ResetCommandBuffer
    \/ RecordCommandBuffer
    \/ UpdateUniformBuffer
    \/ QueueSubmit
    \/ QueuePresent
    \/ RecreateGetSize
    \/ RecreateLoopGetSize
    \/ RecreateWaitEvents
    \/ DeviceWaitIdle
    \/ CleanupSwapChain
    \/ CreateSwapChain
    \/ CreateImageViews
    \/ CreateFramebuffers
    \/ Cleanup
    \/ DestroyMembers

\* the host thread keeps running while it has a step to take (a blocking call
\* returns once it can), and the GPU completes every submission
Fairness ==
    /\ WF_vars(HostStep)
    /\ \A f \in Slots : WF_vars(GpuComplete(f))
    /\ \A f \in Slots : WF_vars(PresentWaitExecutes(f))

SpecLive == Init /\ [][Next]_vars /\ Fairness

----------------------------------------------------------------------------
(* Properties of the frame loop                                            *)

RecreatePcs ==
    { "rc_get_size", "rc_loop_get_size", "rc_wait_events", "rc_wait_idle",
      "rc_cleanup", "rc_create_swap_chain", "rc_create_image_views",
      "rc_create_framebuffers" }

\* the calls of a full recreation cycle, in order
RecreationCalls ==
    << "device.waitIdle", "destroyFramebuffer", "destroyImageView",
       "destroySwapchainKHR", "createSwapchainKHR", "createImageView",
       "createFramebuffer" >>

\* the present call of the current _draw_frame call returned r
Presented(r) ==
    \E i \in 1 .. Len(trace) :
        trace[i].op = "queue.presentKHR" /\ trace[i].result = r

PresentIndex == CHOOSE i \in 1 .. Len(trace) : trace[i].op = "queue.presentKHR"

\* the calls logged after the present call
CallsAfterPresent ==
    [i \in 1 .. (Len(trace) - PresentIndex) |-> trace[PresentIndex + i].op]

\* the last call of the current _draw_frame call was the acquire, returning r
Acquired(r) ==
    /\ trace # << >>
    /\ trace[Len(trace)].op = "acquireNextImageKHR"
    /\ trace[Len(trace)].result = r

\* the host is about to reset or to re-record the command buffer of the
\* current slot
MutatesCommandBuffer == pc \in {"reset_cmd", "record"}

\* C1 as stated: the host never resets or re-records a slot's command buffer
\* while the slot's fence is unsignaled.
C1_FenceSignaledWhenCommandBufferMutated ==
    MutatesCommandBuffer => fence[_current_frame]

\* C1 amended: the host never resets or re-records a slot's command buffer
\* while a submission of that slot is pending on the GPU; the fence is
\* unsignaled at that moment only because the host itself has reset it after
\* its wait on the fence returned.
C1_NoPendingSubmissionWhenCommandBufferMutated ==
    MutatesCommandBuffer =>
        /\ inflight[_current_frame] = 0
        /\ \E i \in 1 .. Len(trace) : trace[i] = Call("waitForFences", Success)

\* C1 witness: the command buffer of a slot used before is about to be reset
\* while the other slot's submission is still pending.
C1_Witness ==
    /\ pc = "reset_cmd"
    /\ cmd[_current_frame] = "executable"
    /\ ~fence[_current_frame]
    /\ inflight[1 - _current_frame] > 0

\* C2: when the present call of an iteration on slot f returns out-of-date,
\* the iteration runs the full recreation cycle (idle wait, destroy
\* framebuffers, views and chain, rebuild chain, views and framebuffers) and
\* returns to the loop with _current_frame still f.
C2_OutOfDatePresentRecreates ==
    Presented(ErrorOutOfDateKHR) =>
        /\ pc \in RecreatePcs \cup {"loop_check", "fatal"}
        /\ \A i \in 1 .. Len(trace) : trace[i].slot = _current_frame
        /\ pc = "loop_check" =>
              /\ CallsAfterPresent = RecreationCalls
              /\ swapchain.chain = "live"
              /\ swapchain.views = "live"
              /\ swapchain.framebuffers = "live"

\* C2 witness: an iteration on slot 1 presented out-of-date and has returned.
C2_Witness ==
    /\ pc = "loop_check"
    /\ Presented(ErrorOutOfDateKHR)
    /\ trace[1].slot = 1
    /\ ~_framebuffer_resized

\* C3: when the acquire reports out-of-date, the iteration goes on to the
\* swapchain recreation (it neither terminates the process nor submits).
C3_AcquireOutOfDateRecreates ==
    Acquired(ErrorOutOfDateKHR) => pc \in RecreatePcs

\* C4: when the loop has exited, the device is idle at the step that destroys
\* the window or the first member.
C4_IdleBeforeTeardown ==
    [][ ((window_alive /\ ~window_alive') \/ destroyed' # destroyed) => Idle ]_vars

\* a step that destroys the chain, the image views or the framebuffers
SwapchainObjectsDestroyed ==
    \/ swapchain.chain = "live" /\ swapchain'.chain = "destroyed"
    \/ swapchain.views = "live" /\ swapchain'.views = "destroyed"
    \/ swapchain.framebuffers = "live" /\ swapchain'.framebuffers = "destroyed"

\* C5: at the moment the chain, the image views or the framebuffers are
\* destroyed, no frame is in flight.
C5_NoFrameInFlightWhenDestroyed ==
    [][ SwapchainObjectsDestroyed => Idle ]_vars

\* within the frame loop the chain, views and framebuffers change only in the
\* steps of _recreate_swap_chain, and the device is idle then
SwapchainChangesOnlyInRecreation ==
    [][ (swapchain' # swapchain /\ pc # "destroy_members")
            => (pc \in RecreatePcs /\ Idle) ]_vars

\* every completed recreation made its calls in the order of RecreationCalls
RecreationInOrder ==
    (pc = "loop_check" /\ \E i \in 1 .. Len(trace) : trace[i].op = "device.waitIdle")
        => CallsAfterPresent = RecreationCalls

\* C6: every recreation waits until the window size is nonzero in both
\* dimensions, then waits for the device to be idle, destroys framebuffers,
\* views and chain, and rebuilds chain, views and framebuffers, and the chain
\* is never rebuilt while the window size is zero.
C6_RecreationOrder ==
    /\ RecreationInOrder
    /\ pc = "rc_create_swap_chain" => (win_size[1] # 0 /\ win_size[2] # 0)

----------------------------------------------------------------------------
(* The selection functions on their own: one call per behaviour, the       *)
(* arguments drawn from bounded sets, the renderer as init left it          *)

DefaultCaps ==
    [ minImageCount |-> 1, maxImageCount |-> 0, currentExtent |-> UndefinedExtent,
      minImageExtent |-> <<1, 1>>, maxImageExtent |-> <<1, 1>> ]

DefaultFormats == << PreferredFormat >>

\* the capabilities and the window of the swapchain scenario of the
\* specification: 800x600 within [1,1]..[4096,4096], two images at least
ExampleCaps ==
    [ minImageCount |-> 2, maxImageCount |-> 0, currentExtent |-> UndefinedExtent,
      minImageExtent |-> <<1, 1>>, maxImageExtent |-> <<4096, 4096>> ]

ExampleWindow == <<800, 600>>

Extents == (0 .. MaxDim) \X (0 .. MaxDim)

\* the image counts a surface may report: small ones and the largest u32
Counts == (0 .. MaxCount) \cup {U32Max}

ImageCountCalls ==
    { [ fn |-> "image_count",
        capabilities |-> [ExampleCaps EXCEPT !.minImageCount = a, !.maxImageCount = b],
        window |-> ExampleWindow ] : a \in Counts, b \in Counts }

\* the driver reports minImageExtent <= maxImageExtent in both components
ExtentCalls ==
    { [ fn |-> "choose_swap_extent",
        capabilities |-> [ExampleCaps EXCEPT !.currentExtent = x[1],
                                             !.minImageExtent = x[2],
                                             !.maxImageExtent = x[3]],
        window |-> x[4] ] :
      x \in { y \in (Extents \cup {UndefinedExtent}) \X Extents \X Extents \X Extents :
                y[2][1] <= y[3][1] /\ y[2][2] <= y[3][2] } }
    \cup { [fn |-> "choose_swap_extent", capabilities |-> ExampleCaps,
            window |-> ExampleWindow] }

\* the longest list of surface formats checked
MaxFormats == 3

\* surface formats a driver can report
SurfaceFormats ==
    [ format : {"B8G8R8A8Srgb", "B8G8R8A8Unorm", "R8G8B8A8Unorm"},
      colorSpace : {"SrgbNonlinear", "ExtendedSrgbLinear"} ]

\* the non-empty lists of surface formats
FormatLists == UNION { [1 .. n -> SurfaceFormats] : n \in 1 .. MaxFormats }

FormatCalls ==
    { [fn |-> "choose_swap_surface_format", available_formats |-> fs] :
        fs \in FormatLists }

\* the longest list of present modes checked
MaxModes == 3

\* present modes a driver can report
PresentModes == {"Immediate", "Mailbox", "Fifo", "FifoRelaxed"}

PresentModeCalls ==
    { [fn |-> "choose_swap_present_mode", available_present_modes |-> ms] :
        ms \in UNION { [1 .. n -> PresentModes] : n \in 0 .. MaxModes } }

SwapInit ==
    /\ pc = "call"
    /\ InitState(DefaultCaps, DefaultFormats)
    /\ fn_args \in ImageCountCalls \cup ExtentCalls \cup FormatCalls \cup PresentModeCalls
    /\ fn_ret = NoCall

loopVars ==
    <<_current_frame, winVars, rcLocals, gpuVars, cmd, image_index, swapchain,
      lifeVars, trace, initVars, resVars>>

\* the image count computation of _create_swap_chain
CallChooseImageCount ==
    /\ pc = "call"
    /\ fn_args.fn = "image_count"
    /\ fn_ret' = [fn |-> "image_count",
                  image_count |-> ChooseImageCount(fn_args.capabilities)]
    /\ pc' = "returned"
    /\ UNCHANGED <<loopVars, fn_args>>

\* _choose_swap_extent(capabilities, window)
CallChooseSwapExtent ==
    /\ pc = "call"
    /\ fn_args.fn = "choose_swap_extent"
    /\ fn_ret' = [fn |-> "choose_swap_extent",
                  extent |-> ChooseSwapExtent(fn_args.capabilities, fn_args.window)]
    /\ pc' = "returned"
    /\ UNCHANGED <<loopVars, fn_args>>

\* _choose_swap_surface_format(available_formats)
CallChooseSwapSurfaceFormat ==
    /\ pc = "call"
    /\ fn_args.fn = "choose_swap_surface_format"
    /\ fn_ret' = [fn |-> "choose_swap_surface_format",
                  surface_format |-> ChooseSwapSurfaceFormat(fn_args.available_formats)]
    /\ pc' = "returned"
    /\ UNCHANGED <<loopVars, fn_args>>

\* _choose_swap_present_mode(available_present_modes)
CallChooseSwapPresentMode ==
    /\ pc = "call"
    /\ fn_args.fn = "choose_swap_present_mode"
    /\ fn_ret' = [fn |-> "choose_swap_present_mode",
                  present_mode |-> ChooseSwapPresentMode(fn_args.available_present_modes)]
    /\ pc' = "returned"
    /\ UNCHANGED <<loopVars, fn_args>>

SwapNext ==
    \/ CallChooseImageCount
    \/ CallChooseSwapExtent
    \/ CallChooseSwapSurfaceFormat
    \/ CallChooseSwapPresentMode

SpecSwap == SwapInit /\ [][SwapNext]_vars

MemoryFlags == {"DeviceLocal", "HostVisible"}

\* device memory-type tables of up to MaxMemTypes entries
MemoryTables ==
    UNION { [1 .. n -> SUBSET MemoryFlags] : n \in 0 .. MaxMemTypes }

\* the filter has one bit more than the largest table has entries
MemoryCalls ==
    { [ fn |-> "find_memory_type", memory_types |-> t, mem_type_filter |-> m,
        properties |-> p ] :
      t \in MemoryTables, m \in 0 .. (2 ^ (MaxMemTypes + 1) - 1),
      p \in SUBSET MemoryFlags }

MemInit ==
    /\ pc = "call"
    /\ InitState(DefaultCaps, DefaultFormats)
    /\ fn_args \in MemoryCalls
    /\ fn_ret = NoCall

\* _find_memory_type(physical_device, mem_type_filter, properties): an index
\* is returned, or core_assert ends the process
CallFindMemoryType ==
    /\ pc = "call"
    /\ fn_args.fn = "find_memory_type"
    /\ LET r == FindMemoryType(fn_args.memory_types, fn_args.mem_type_filter,
                               fn_args.properties)
       IN  IF r.fatal
           THEN pc' = "fatal" /\ fn_ret' = fn_ret
           ELSE pc' = "returned"
                /\ fn_ret' = [fn |-> "find_memory_type", index |-> r.index]
    /\ UNCHANGED <<loopVars, fn_args>>

MemNext == CallFindMemoryType

SpecMem == MemInit /\ [][MemNext]_vars

----------------------------------------------------------------------------
(* The device functions, applied to every device of Devices                *)

DeviceCalls ==
    { [fn |-> f, device |-> d] :
        f \in {"find_queue_families", "is_device_suitable"}, d \in Devices }

DevInit ==
    /\ pc = "call"
    /\ InitState(DefaultCaps, DefaultFormats)
    /\ fn_args \in DeviceCalls
    /\ fn_ret = NoCall

\* _find_queue_families(device, surface)
CallFindQueueFamilies ==
    /\ pc = "call"
    /\ fn_args.fn = "find_queue_families"
    /\ LET r == FindQueueFamilies(fn_args.device)
       IN  IF r.fatal
           THEN pc' = "fatal" /\ fn_ret' = fn_ret
           ELSE pc' = "returned"
                /\ fn_ret' = [ fn |-> "find_queue_families",
                               graphics_family |-> r.graphics_family,
                               present_family |-> r.present_family ]
    /\ UNCHANGED <<loopVars, fn_args>>

\* _is_device_suitable(device, surface)
CallIsDeviceSuitable ==
    /\ pc = "call"
    /\ fn_args.fn = "is_device_suitable"
    /\ LET r == IsDeviceSuitable(fn_args.device)
       IN  IF r.fatal
           THEN pc' = "fatal" /\ fn_ret' = fn_ret
           ELSE pc' = "returned"
                /\ fn_ret' = [fn |-> "is_device_suitable", suitable |-> r.suitable]
    /\ UNCHANGED <<loopVars, fn_args>>

DevNext ==
    \/ CallFindQueueFamilies
    \/ CallIsDeviceSuitable

SpecDev == DevInit /\ [][DevNext]_vars

----------------------------------------------------------------------------
(* The functions that create and fill buffers and images, call by call     *)

\* the steps of _init_vulkan that create buffers or images
UploadSteps ==
    { "_create_texture_image", "_create_vertex_buffer", "_create_index_buffer",
      "_create_uniform_buffers" }

UploadInit ==
    /\ pc = "upload"
    /\ InitState(DefaultCaps, DefaultFormats)
    /\ fn_args \in {[fn |-> step] : step \in UploadSteps}
    /\ fn_ret = NoCall

uploadFrame ==
    <<_current_frame, winVars, rcLocals, gpuVars, cmd, image_index, swapchain,
      lifeVars, initVars, semVars, created, fnVars, presenting>>

\* an entry of the call log of a resource function
UploadCall(instr, r) ==
    [op |-> instr.op, obj |-> instr.obj, arg |-> instr.arg, result |-> r]

\* the function is entered: nothing of it exists yet
UploadEnter ==
    /\ pc = "upload"
    /\ resources' = NoResources
    /\ todo' = ProgramOf(fn_args.fn)
    /\ trace' = << >>
    /\ pc' = "upload_run"
    /\ UNCHANGED uploadFrame

\* the next call of the function that runs; queue.waitIdle returns eSuccess
\* only once the GPU has executed what was submitted
UploadStep ==
    /\ pc = "upload_run"
    /\ todo # << >>
    /\ LET instr == Head(todo)
       IN  \E r \in (IF instr.op \in Fallible THEN CallResults ELSE {Success}) :
              /\ (instr.op = "queue.waitIdle" /\ VkExpect(r)) =>
                     resources.pending = << >>
              /\ IF VkExpect(r) /\ ~Asserts(instr)
                 THEN /\ resources' = Exec(resources, instr)
                      /\ todo' = Tail(todo)
                      /\ pc' = pc
                 ELSE /\ resources' = (IF VkExpect(r) THEN Exec(resources, instr)
                                                     ELSE resources)
                      /\ todo' = todo
                      /\ pc' = "fatal"
              /\ trace' = Append(trace, UploadCall(instr, r))
    /\ UNCHANGED uploadFrame

\* the function returns
UploadReturn ==
    /\ pc = "upload_run"
    /\ todo = << >>
    /\ pc' = "returned"
    /\ UNCHANGED <<uploadFrame, resources, todo, trace>>

\* the GPU executes the submitted one-shot command buffer; the log records
\* the layout the image had when the commands ran
UploadGpuExecutes ==
    /\ pc = "upload_run"
    /\ resources.pending # << >>
    /\ resources' = GpuExecuted(resources)
    /\ trace' = Append(trace, [op |-> "gpu.execute", obj |-> resources.pending[1].arg,
                               arg |-> resources.pending, result |-> Success,
                               layout |-> resources.layout])
    /\ UNCHANGED <<uploadFrame, pc, todo>>

UploadNext ==
    \/ UploadEnter
    \/ UploadStep
    \/ UploadReturn
    \/ UploadGpuExecutes

SpecUpload == UploadInit /\ [][UploadNext]_vars

----------------------------------------------------------------------------
(* Start-up: VulkanRenderer::init calls _init_vulkan, which runs the steps *)
(* of InitOrder; render() is called after init has returned                *)

\* queue family lists of the devices enumerated at start-up: one family for
\* graphics and presentation, one family for each, and a presentation-only
\* family listed before the graphics family
InitFamilyLists ==
    { << [graphics |-> TRUE, present |-> TRUE] >>,
      << [graphics |-> TRUE, present |-> FALSE],
         [graphics |-> FALSE, present |-> TRUE] >>,
      << [graphics |-> FALSE, present |-> TRUE],
         [graphics |-> TRUE, present |-> TRUE] >> }

\* devices enumerated at start-up: they differ in type, image dimension,
\* queue families and anisotropic sampling
InitDevices ==
    { d \in Devices :
        /\ d.queue_families \in InitFamilyLists
        /\ d.extensions = s_physical_device_extensions
        /\ d.formats = 1
        /\ d.present_modes = 1 }

DeviceLists == UNION { [1 .. n -> InitDevices] : n \in 0 .. MaxDevices }

\* the renderer when init calls _init_vulkan: every handle is null
BeforeInit ==
    /\ pc = "init"
    /\ _current_frame = 0
    /\ _framebuffer_resized = FALSE
    /\ should_close = FALSE
    /\ win_size = InitialSize
    /\ width = 0
    /\ height = 0
    /\ fence = [f \in Slots |-> FALSE]
    /\ inflight = [f \in Slots |-> 0]
    /\ cmd = [f \in Slots |-> "initial"]
    /\ image_index = 0
    /\ swapchain = NoChain
    /\ destroyed = << >>
    /\ window_alive = TRUE
    /\ trace = << >>
    /\ devices \in DeviceLists
    /\ _physical_device = 0
    /\ init_done = << >>
    /\ _render_pass = [format |-> "Undefined"]
    /\ _image_available_semaphores = [f \in Slots |-> FALSE]
    /\ _render_finished_semapahores = [f \in Slots |-> FALSE]
    /\ created = [m \in Members \ SwapchainMembers |-> "null"]
    /\ resources = NoResources
    /\ todo = << >>
    /\ presenting = [f \in Slots |-> NotPresenting]
    /\ fn_args = NoCall
    /\ fn_ret = NoCall

\* the step _init_vulkan calls next
NextStep ==
    IF Len(init_done) < Len(InitOrder) THEN InitOrder[Len(init_done) + 1] ELSE "none"

\* what no step of _init_vulkan changes
initFrame ==
    <<_current_frame, winVars, rcLocals, inflight, cmd, image_index, lifeVars,
      trace, fnVars, devices, semVars, todo, presenting>>

\* the step returned, or an assertion in it ended the process
StepEnds(step, ok) ==
    IF ok THEN /\ pc' = pc
               /\ init_done' = Append(init_done, step)
               /\ created' = CreatedBy(created, step, "_init_vulkan")
               /\ resources' = Ran(ProgramOf(step), 1, resources)
          ELSE /\ pc' = "fatal"
               /\ init_done' = init_done
               /\ created' = created
               /\ resources' = resources

\* steps that create handles the model keeps no further state for
PlainSteps ==
    { "_create_vk_instance", "_create_surface", "_create_descriptor_set_layout",
      "_create_graphics_pipeline", "_create_command_pool",
      "_create_depth_resources", "_create_texture_image",
      "_create_texture_image_view", "_create_texture_sampler", "_load_model",
      "_create_vertex_buffer", "_create_index_buffer", "_create_uniform_buffers",
      "_create_descriptor_pool", "_create_descriptor_sets",
      "_create_command_buffers" }

CreateObjects(step) ==
    /\ pc = "init"
    /\ NextStep = step
    /\ \E r \in CallResults : StepEnds(step, VkExpect(r))
    /\ UNCHANGED <<initFrame, fence, swapchain, _physical_device, _render_pass>>

\* _create_physical_device()
CreatePhysicalDevice ==
    /\ pc = "init"
    /\ NextStep = "_create_physical_device"
    /\ \E r \in CallResults :
          LET sel == SelectPhysicalDevice(devices)
          IN  /\ _physical_device' = (IF VkExpect(r) THEN sel.device ELSE _physical_device)
              /\ StepEnds("_create_physical_device", VkExpect(r) /\ ~sel.fatal)
    /\ UNCHANGED <<initFrame, fence, swapchain, _render_pass>>

\* _create_logical_device(): value() of both indices, then createDeviceUnique
CreateLogicalDevice ==
    /\ pc = "init"
    /\ NextStep = "_create_logical_device"
    /\ \E r \in CallResults :
          LET indices == FindQueueFamilies(devices[_physical_device])
          IN  StepEnds("_create_logical_device",
                       ~indices.fatal /\ IsComplete(indices) /\ VkExpect(r))
    /\ UNCHANGED <<initFrame, fence, swapchain, _physical_device, _render_pass>>

\* _create_swap_chain() at start-up
InitCreateSwapChain ==
    /\ pc = "init"
    /\ NextStep = "_create_swap_chain"
    /\ \E fs \in LoopFormats, r \in CallResults :
          /\ swapchain' = (IF VkExpect(r)
                           THEN BuiltChain(DefaultCaps, fs, win_size, swapchain)
                           ELSE swapchain)
          /\ StepEnds("_create_swap_chain", VkExpect(r))
    /\ UNCHANGED <<initFrame, fence, _physical_device, _render_pass>>

\* _create_image_views() at start-up
InitCreateImageViews ==
    /\ pc = "init"
    /\ NextStep = "_create_image_views"
    /\ \E r \in CallResults :
          /\ swapchain' = (IF VkExpect(r) THEN BuiltViews(swapchain) ELSE swapchain)
          /\ StepEnds("_create_image_views", VkExpect(r))
    /\ UNCHANGED <<initFrame, fence, _physical_device, _render_pass>>

\* _create_render_pass(): the color attachment has _swap_chain_image_format
CreateRenderPass ==
    /\ pc = "init"
    /\ NextStep = "_create_render_pass"
    /\ \E r \in CallResults :
          /\ _render_pass' = (IF VkExpect(r) THEN [format |-> swapchain.format]
                                             ELSE _render_pass)
          /\ StepEnds("_create_render_pass", VkExpect(r))
    /\ UNCHANGED <<initFrame, fence, swapchain, _physical_device>>

\* _create_framebuffers() at start-up
InitCreateFramebuffers ==
    /\ pc = "init"
    /\ NextStep = "_create_framebuffers"
    /\ \E r \in CallResults :
          /\ swapchain' = (IF VkExpect(r) THEN BuiltFramebuffers(swapchain)
                                          ELSE swapchain)
          /\ StepEnds("_create_framebuffers", VkExpect(r))
    /\ UNCHANGED <<initFrame, fence, _physical_device, _render_pass>>

\* _create_sync_objects(): the fences are created signaled
CreateSyncObjects ==
    /\ pc = "init"
    /\ NextStep = "_create_sync_objects"
    /\ \E r \in CallResults :
          /\ fence' = (IF VkExpect(r) THEN [f \in Slots |-> TRUE] ELSE fence)
          /\ StepEnds("_create_sync_objects", VkExpect(r))
    /\ UNCHANGED <<initFrame, swapchain, _physical_device, _render_pass>>

\* _init_vulkan and init return; core::run calls render()
InitReturns ==
    /\ pc = "init"
    /\ NextStep = "none"
    /\ pc' = "loop_check"
    /\ UNCHANGED <<initFrame, fence, swapchain, initVars, created, resources>>

InitNext ==
    \/ \E step \in PlainSteps : CreateObjects(step)
    \/ CreatePhysicalDevice
    \/ CreateLogicalDevice
    \/ InitCreateSwapChain
    \/ InitCreateImageViews
    \/ CreateRenderPass
    \/ InitCreateFramebuffers
    \/ CreateSyncObjects
    \/ InitReturns

SpecInit == BeforeInit /\ [][InitNext]_vars

----------------------------------------------------------------------------
(* Properties of the selection functions                                   *)

\* a capability pair the driver may report: no maximum, or one not below the
\* minimum
ValidCounts(c) == c.maxImageCount = 0 \/ c.maxImageCount >= c.minImageCount

\* C7 as stated: for every valid (minImageCount, maxImageCount) pair the
\* requested image count is at least minImageCount + 1 and, if maxImageCount
\* is nonzero, at most maxImageCount.
C7_ImageCountBounds ==
    (fn_ret.fn = "image_count" /\ ValidCounts(fn_args.capabilities)) =>
        /\ fn_ret.image_count >= fn_args.capabilities.minImageCount + 1
        /\ fn_args.capabilities.maxImageCount > 0 =>
              fn_ret.image_count <= fn_args.capabilities.maxImageCount

\* the sum minImageCount + 1 as the code computes it, in u32 arithmetic
MinPlusOne == (fn_args.capabilities.minImageCount + 1) % U32Mod

\* C7 amended: for every valid pair the requested image count is at most
\* maxImageCount if that is nonzero, and at least minImageCount + 1 (the u32
\* sum) if maxImageCount is zero or not below that sum; when a nonzero
\* maxImageCount is below the sum, maxImageCount equals minImageCount and the
\* count is maxImageCount.
C7_ImageCountBoundsAmended ==
    (fn_ret.fn = "image_count" /\ ValidCounts(fn_args.capabilities)) =>
        LET min == fn_args.capabilities.minImageCount
            max == fn_args.capabilities.maxImageCount
        IN  /\ max > 0 => fn_ret.image_count <= max
            /\ (max = 0 \/ max >= MinPlusOne) => fn_ret.image_count >= MinPlusOne
            /\ (max > 0 /\ max < MinPlusOne) =>
                  (max = min /\ fn_ret.image_count = max)

\* C7 witness: a valid pair whose maximum equals its minimum was evaluated.
C7_Witness ==
    /\ fn_ret.fn = "image_count"
    /\ fn_args.capabilities.minImageCount = 2
    /\ fn_args.capabilities.maxImageCount = 2
    /\ fn_ret.image_count = 2

\* C8: the requested image count is minImageCount + 1 (the u32 sum of the
\* code) when maxImageCount is 0 or minImageCount + 1 <= maxImageCount, and
\* maxImageCount otherwise; a minimum of 2 with no maximum gives 3.
C8_ImageCountValue ==
    fn_ret.fn = "image_count" =>
        LET max == fn_args.capabilities.maxImageCount
        IN  /\ (max = 0 \/ MinPlusOne <= max) => fn_ret.image_count = MinPlusOne
            /\ ~(max = 0 \/ MinPlusOne <= max) => fn_ret.image_count = max
            /\ fn_args.capabilities = ExampleCaps => fn_ret.image_count = 3

\* C8 witness: the scenario of the specification was evaluated.
C8_Witness ==
    /\ fn_ret.fn = "image_count"
    /\ fn_args.capabilities = ExampleCaps
    /\ fn_ret.image_count = 3

\* C9: with a defined current extent the chosen extent is that extent,
\* whatever the window size; otherwise it is the window size with each
\* component clamped into [minImageExtent, maxImageExtent], so a size in
\* range is returned unchanged (800x600 within [1,1]..[4096,4096]).
C9_ExtentSelection ==
    fn_ret.fn = "choose_swap_extent" =>
        LET c == fn_args.capabilities
            w == fn_args.window
            e == fn_ret.extent
        IN  /\ c.currentExtent # UndefinedExtent => e = c.currentExtent
            /\ c.currentExtent = UndefinedExtent =>
                  \A k \in {1, 2} :
                      /\ c.minImageExtent[k] <= e[k]
                      /\ e[k] <= c.maxImageExtent[k]
                      /\ w[k] < c.minImageExtent[k] => e[k] = c.minImageExtent[k]
                      /\ w[k] > c.maxImageExtent[k] => e[k] = c.maxImageExtent[k]
                      /\ (c.minImageExtent[k] <= w[k] /\ w[k] <= c.maxImageExtent[k])
                            => e[k] = w[k]
            /\ (c = ExampleCaps /\ w = ExampleWindow) => e = <<800, 600>>

\* C9 witness: with the current extent undefined, a window too wide and too
\* low was clamped to the maximum width and the minimum height.
C9_Witness ==
    /\ fn_ret.fn = "choose_swap_extent"
    /\ fn_args.capabilities.currentExtent = UndefinedExtent
    /\ fn_args.window[1] > fn_args.capabilities.maxImageExtent[1]
    /\ fn_args.window[2] < fn_args.capabilities.minImageExtent[2]
    /\ fn_ret.extent = << fn_args.capabilities.maxImageExtent[1],
                          fn_args.capabilities.minImageExtent[2] >>

\* the indices the claim calls compatible: in the table, allowed by the
\* bitmask, and with every required property
CompatibleTypes ==
    { i \in 0 .. (Len(fn_args.memory_types) - 1) :
        /\ (fn_args.mem_type_filter \div (2 ^ i)) % 2 = 1
        /\ fn_args.properties \subseteq fn_args.memory_types[i + 1] }

\* C10: the memory type returned is the lowest index whose bit is set in the
\* bitmask and whose properties include the required ones; when there is
\* none, the call ends in the fatal state and returns no index.
C10_LowestCompatibleMemoryType ==
    (fn_args.fn = "find_memory_type" /\ pc # "call") =>
        IF CompatibleTypes = {}
        THEN pc = "fatal" /\ fn_ret = NoCall
        ELSE /\ pc = "returned"
             /\ fn_ret.index \in CompatibleTypes
             /\ \A i \in CompatibleTypes : fn_ret.index <= i

\* C10 witness: type 0 is allowed by the mask but lacks a required property,
\* type 1 has the properties but is masked out, and type 2 was returned.
C10_Witness ==
    /\ pc = "returned"
    /\ fn_args.fn = "find_memory_type"
    /\ fn_args.properties = {"DeviceLocal", "HostVisible"}
    /\ Len(fn_args.memory_types) = 3
    /\ fn_args.memory_types[1] = {"HostVisible"}
    /\ fn_args.memory_types[2] = fn_args.properties
    /\ fn_args.mem_type_filter = 5
    /\ fn_ret.index = 2

----------------------------------------------------------------------------
(* Properties of device selection                                          *)

\* suitability as the specification defines it: a graphics family, a family
\* that can present to the surface, the required extensions, a surface
\* format, a present mode, and anisotropic sampling
ClaimSuitable(d) ==
    /\ \E k \in 1 .. Len(d.queue_families) : d.queue_families[k].graphics
    /\ \E k \in 1 .. Len(d.queue_families) : d.queue_families[k].present
    /\ s_physical_device_extensions \subseteq d.extensions
    /\ d.formats > 0
    /\ d.present_modes > 0
    /\ d.samplerAnisotropy

\* the claim's score of a device
ClaimScore(d) ==
    (IF d.deviceType = "DiscreteGpu" THEN 1000 ELSE 0) + d.maxImageDimension2D

SuitableDevices == { i \in 1 .. Len(devices) : ClaimSuitable(devices[i]) }

\* _create_physical_device has returned
PhysicalDeviceSelected ==
    \E i \in 1 .. Len(init_done) : init_done[i] = "_create_physical_device"

\* C11: for a device list with a suitable device, the device left selected by
\* _create_physical_device is suitable and no suitable device has a higher
\* score.
C11_SelectsBestSuitable ==
    (PhysicalDeviceSelected /\ SuitableDevices # {}) =>
        /\ _physical_device \in SuitableDevices
        /\ \A i \in SuitableDevices :
              ClaimScore(devices[i]) <= ClaimScore(devices[_physical_device])

\* C12: with no suitable device in the list (the empty list included), the
\* step _create_physical_device ends in the fatal state with no device
\* selected.
C12_NoSuitableDeviceIsFatal ==
    [][ (SuitableDevices = {} /\ pc = "init"
            /\ NextStep = "_create_physical_device")
          => (pc' = "fatal" /\ _physical_device' = 0 /\ init_done' = init_done) ]_vars

\* C12 witness: two devices were enumerated, neither is suitable, and the
\* selection ended in the fatal state.
C12_Witness ==
    /\ pc = "fatal"
    /\ Len(devices) = 2
    /\ SuitableDevices = {}
    /\ NextStep = "_create_physical_device"
    /\ _physical_device = 0

\* C13: _is_device_suitable returns, and returns true exactly for the devices
\* with a graphics family, a present family, the required extensions, a
\* format, a present mode and anisotropic sampling.
C13_SuitableIffConditions ==
    (fn_args.fn = "is_device_suitable" /\ pc # "call") =>
        /\ pc = "returned"
        /\ fn_ret.suitable = ClaimSuitable(fn_args.device)

\* C14: when _find_queue_families returns complete indices, the graphics
\* index is that of a family with graphics support and the present index
\* that of a family that can present to the surface.
C14_CompleteIndicesAreValid ==
    (pc = "returned" /\ fn_ret.fn = "find_queue_families" /\ IsComplete(fn_ret)) =>
        LET families == fn_args.device.queue_families
            g == fn_ret.graphics_family[1]
            p == fn_ret.present_family[1]
        IN  /\ g + 1 \in 1 .. Len(families)
            /\ p + 1 \in 1 .. Len(families)
            /\ families[g + 1].graphics
            /\ SurfaceSupport(families, p)

\* C14 witness: the first family has graphics but cannot present, the second
\* has both, and both indices returned are 1.
C14_Witness ==
    /\ pc = "returned"
    /\ fn_ret.fn = "find_queue_families"
    /\ Len(fn_args.device.queue_families) = 2
    /\ fn_args.device.queue_families[1] = [graphics |-> TRUE, present |-> FALSE]
    /\ fn_ret.graphics_family = << 1 >>
    /\ fn_ret.present_family = << 1 >>

----------------------------------------------------------------------------
(* Properties of error handling in the frame loop                          *)

\* the results that report a stale swapchain
StaleResults == {SuboptimalKHR, ErrorOutOfDateKHR}

\* C15: once a call of the current iteration has returned a result that is
\* neither success nor a stale swapchain, the program is in the fatal state.
C15_FailureIsFatal ==
    \A i \in 1 .. Len(trace) :
        trace[i].result \notin ({Success} \cup StaleResults) => pc = "fatal"

\* C16: the program is never in the fatal state because of a stale swapchain
\* result, from the acquire or from the present.
C16_StaleIsNeverFatal ==
    (pc = "fatal" /\ trace # << >>) => trace[Len(trace)].result \notin StaleResults

\* C17: framebuffers are live only for a swapchain whose image format is the
\* format the render pass was built with; a recreation that chose another
\* format has ended in the fatal state.
C17_FormatChangeIsFatal ==
    swapchain.framebuffers = "live" => swapchain.format = _render_pass.format

----------------------------------------------------------------------------
(* Termination of the render loop                                          *)

\* render() has returned, or the process has ended
LoopTerminated == pc \in {"exit", "destroy_members", "done", "fatal"}

WindowNonZero == win_size[1] # 0 /\ win_size[2] # 0

\* C18: once the window has requested close, the render loop terminates.
C18_CloseTerminates == should_close ~> LoopTerminated

\* with a window that stays non-zero from some point on, a requested close
\* does end the loop
CloseTerminatesUnlessMinimized ==
    (<>[]WindowNonZero) => (should_close ~> LoopTerminated)

----------------------------------------------------------------------------
(* Properties of the destruction order                                     *)

\* the place of a member in the order sync objects, command pool, resources,
\* pipeline/render pass, swapchain, logical device, surface, instance
ShutdownPhase(member) ==
    CASE member \in {"_image_available_semaphores",
                     "_render_finished_semapahores",
                     "_frame_in_flight_fences"} -> 1
      [] member \in {"_command_pool", "_command_buffers"} -> 2
      [] member \in {"_vertex_buffer", "_vertex_buffer_memory",
                     "_index_buffer", "_index_buffer_memory",
                     "_uniform_buffers", "_uniform_buffers_memory",
                     "_texture_image", "_texture_image_memory",
                     "_texture_image_view", "_texture_sampler",
                     "_depth_image", "_depth_image_memory",
                     "_depth_image_view"} -> 3
      [] member \in {"_render_pass", "_descriptor_set_layout",
                     "_descriptor_pool", "_descriptor_sets",
                     "_pipeline_Layout", "_graphics_pipeline",
                     "_swap_chain_framebuffers"} -> 4
      [] member \in {"_swap_chain", "_swap_chain_image_views"} -> 5
      [] member = "_device" -> 6
      [] member = "_surface" -> 7
      [] OTHER -> 8

\* the members the creation of a member reads
DependsOn(member) ==
    UNION {Uses(InitOrder[i]) \cap Members :
             i \in {j \in 1 .. Len(InitOrder) : member \in Produces(InitOrder[j])}}

\* C19: at shutdown the members are destroyed in the order sync objects,
\* command pool, resources, pipeline/render pass, swapchain, logical device,
\* surface, instance, and no member is destroyed before a member that
\* depends on it.
C19_ReverseDependencyOrder ==
    pc = "done" =>
        /\ \A i, j \in 1 .. Len(destroyed) :
              i < j => ShutdownPhase(destroyed[i]) <= ShutdownPhase(destroyed[j])
        /\ \A i, j \in 1 .. Len(destroyed) :
              destroyed[i] \in DependsOn(destroyed[j]) => j < i

\* the part of the order that the members do follow: a member is destroyed
\* before the device, the device before the surface, the surface before the
\* instance, command buffers before their pool, views before their images
DestructionKeepsParents ==
    pc = "done" =>
        \A i, j \in 1 .. Len(destroyed) :
            /\ (destroyed[j] = "_vk_instance") => i <= j
            /\ (destroyed[j] = "_surface" /\ destroyed[i] # "_vk_instance") => i <= j
            /\ (destroyed[j] = "_device"
                  /\ destroyed[i] \notin {"_vk_instance", "_surface"}) => i <= j
            /\ (destroyed[i] = "_command_buffers" /\ destroyed[j] = "_command_pool") => i < j
            /\ (destroyed[i] = "_texture_image_view" /\ destroyed[j] = "_texture_image") => i < j

----------------------------------------------------------------------------
(* Properties of the start-up order                                        *)

\* the place of a step in the order instance, surface, physical device,
\* logical device, swapchain, image views, render pass, descriptor
\* layout/pipeline, command pool, resources, sync objects
InitPhase(step) ==
    CASE step = "_create_vk_instance" -> 1
      [] step = "_create_surface" -> 2
      [] step = "_create_physical_device" -> 3
      [] step = "_create_logical_device" -> 4
      [] step = "_create_swap_chain" -> 5
      [] step = "_create_image_views" -> 6
      [] step = "_create_render_pass" -> 7
      [] step \in {"_create_descriptor_set_layout",
                   "_create_graphics_pipeline"} -> 8
      [] step = "_create_command_pool" -> 9
      [] step = "_create_sync_objects" -> 11
      [] OTHER -> 10

\* the members assigned by the steps before the j-th executed step
ProducedBefore(j) == UNION {Produces(init_done[i]) : i \in 1 .. j - 1}

\* the steps of _init_vulkan
InitSteps ==
    PlainSteps \cup
    { "_create_physical_device", "_create_logical_device", "_create_swap_chain",
      "_create_image_views", "_create_render_pass", "_create_framebuffers",
      "_create_sync_objects" }

\* C20: start-up runs each step once, in the order instance, surface,
\* physical device, logical device, swapchain, image views, render pass,
\* descriptor layout/pipeline, command pool, resources, sync objects; a step
\* runs only after the steps whose output it uses; the frame loop starts
\* only after every step has completed.
C20_InitOrder ==
    /\ \A i, j \in 1 .. Len(init_done) :
          i < j => /\ init_done[i] # init_done[j]
                   /\ InitPhase(init_done[i]) <= InitPhase(init_done[j])
    /\ \A j \in 1 .. Len(init_done) :
          /\ init_done[j] \in InitSteps
          /\ Uses(init_done[j]) \subseteq ProducedBefore(j)
    /\ pc \notin {"init", "fatal"} =>
          {init_done[i] : i \in 1 .. Len(init_done)} = InitSteps

C20_Witness ==
    /\ pc = "loop_check"
    /\ Len(init_done) = Cardinality(InitSteps)
    /\ swapchain.framebuffers = "live"
    /\ \E i, j \in 1 .. Len(init_done) :
          /\ i < j
          /\ init_done[i] = "_create_uniform_buffers"
          /\ init_done[j] = "_create_descriptor_sets"

----------------------------------------------------------------------------
(* Properties of the semaphores of a frame                                 *)

\* entry i of the call log is a call of op
IsCall(i, op) == trace[i].op = op

\* an earlier entry of the call log is a successful call of op that signals sem
SignaledBefore(i, op, sem) ==
    \E j \in 1 .. (i - 1) :
        IsCall(j, op) /\ trace[j].result = Success /\ trace[j].signals = sem

----------------------------------------------------------------------------
(* Properties of the frame index and of the resize flag                    *)

\* the step is the return of _draw_frame after a present that did not
\* trigger recreation
PresentCompletes == pc = "present" /\ pc' = "loop_check"

\* C22: the frame index is always in 0 .. N-1; an iteration that completes
\* presentation without triggering recreation sets it to (frame index + 1)
\* mod N, and no other step changes it.
C22_FrameIndex ==
    [][ /\ _current_frame \in 0 .. (s_max_frames_in_flight - 1)
        /\ _current_frame' \in 0 .. (s_max_frames_in_flight - 1)
        /\ PresentCompletes =>
              _current_frame' = (_current_frame + 1) % s_max_frames_in_flight
        /\ ~PresentCompletes => _current_frame' = _current_frame ]_vars

C22_Witness ==
    /\ pc = "loop_check"
    /\ _current_frame = 0
    /\ inflight[1] > 0
    /\ Presented(Success)


\* the host takes the present step; its result is the last entry of the log
PresentStep == pc = "present" /\ pc' # "present"

PresentResult == trace'[Len(trace')].result

\* the events of the step changed the framebuffer size, so the resize
\* callback ran
ResizeDelivered == win_size' # win_size

\* the test of the present step on the resize flag
PresentTestsResizeFlag ==
    [][ PresentStep =>
          /\ _framebuffer_resized =>
                (pc' = "rc_get_size" /\ ~_framebuffer_resized')
          /\ (~_framebuffer_resized /\ PresentResult = Success) =>
                (pc' = "loop_check" /\ ~_framebuffer_resized'
                   /\ swapchain' = swapchain) ]_vars

ResizeFlagNeverSet == ~_framebuffer_resized

----------------------------------------------------------------------------
(* Properties of the objects that outlive a recreation                     *)

\* a step of the host inside _recreate_swap_chain
HostRecreationStep == pc \in RecreatePcs /\ pc' # pc

PipelineMembers ==
    {"_render_pass", "_descriptor_set_layout", "_pipeline_Layout",
     "_graphics_pipeline"}

\* C24: swapchain recreation leaves the render pass, the descriptor-set
\* layout, the pipeline layout and the pipeline as _init_vulkan created
\* them; it changes only the chain, its images, the image views, the
\* framebuffers and the stored extent and format.
C24_RecreationKeepsPipeline ==
    [][ /\ \A m \in PipelineMembers : created[m] = "_init_vulkan"
        /\ HostRecreationStep =>
              /\ created' = created
              /\ _render_pass' = _render_pass
              /\ UNCHANGED <<_current_frame, gpuVars, cmd, semVars, lifeVars,
                             devices, _physical_device, init_done>> ]_vars

C24_Witness ==
    /\ pc = "loop_check"
    /\ \E i \in 1 .. Len(trace) :
          trace[i].op = "createFramebuffer" /\ trace[i].result = Success
    /\ swapchain.format # _render_pass.format
    /\ \A m \in PipelineMembers : created[m] = "_init_vulkan"

----------------------------------------------------------------------------
(* Properties of the uploads                                               *)

\* the entries of the call log for a successful call of op on obj
Entries(call) ==
    {i \in 1 .. Len(trace) :
        trace[i].op = call[1] /\ trace[i].obj = call[2] /\ trace[i].result = Success}

\* if the second call has been made, the first was made before it
Precedes(first, second) ==
    \A j \in Entries(second) : \E i \in Entries(first) : i < j

\* the steps of a buffer upload into dst, in the claimed order; the staging
\* buffer and its memory are released together at the end
UploadOrder(dst) ==
    << << "createBuffer", Object("staging_buffer") >>,
       << "mapMemory", Object("staging_buffer_memory") >>,
       << "memcpy", Object("staging_buffer_memory") >>,
       << "unmapMemory", Object("staging_buffer_memory") >>,
       << "createBuffer", dst >>,
       << "copyBuffer", Object("staging_buffer") >>,
       << "queue.submit", Object("command_buffer") >>,
       << "gpu.execute", dst >>,
       << "queue.waitIdle", NoObject >>,
       << "freeCommandBuffers", Object("command_buffer") >> >>

StagingReleases ==
    { << "freeMemory", Object("staging_buffer_memory") >>,
      << "destroyBuffer", Object("staging_buffer") >> }

BufferUploads ==
    [ _create_vertex_buffer |-> Object("_vertex_buffer"),
      _create_index_buffer |-> Object("_index_buffer") ]

\* the objects a submitted copy reads and writes
CopyOperands ==
    UNION {{resources.pending[i].obj, resources.pending[i].arg} :
             i \in 1 .. Len(resources.pending)}

\* C25: a vertex or index upload creates the staging buffer, maps it, copies
\* the payload, unmaps, creates the device-local buffer, records the copy in
\* a one-shot command buffer, submits, waits for completion, frees the
\* command buffer and then releases the staging buffer and its memory, each
\* step once; the staging buffer is never released while the copy is pending.
C25_UploadOrder ==
    (pc \in {"upload_run", "returned", "fatal"} /\ fn_args.fn \in DOMAIN BufferUploads) =>
        LET order == UploadOrder(BufferUploads[fn_args.fn])
        IN  /\ \A k \in 1 .. (Len(order) - 1) : Precedes(order[k], order[k + 1])
            /\ \A k \in 1 .. Len(order) : Cardinality(Entries(order[k])) <= 1
            /\ \A release \in StagingReleases :
                  /\ Precedes(order[Len(order)], release)
                  /\ Cardinality(Entries(release)) <= 1
            /\ resources.pending # << >> =>
                  /\ CopyOperands \subseteq resources.live
                  /\ Object("staging_buffer_memory") \in resources.live
            /\ pc = "returned" =>
                  /\ \A k \in 1 .. Len(order) : Entries(order[k]) # {}
                  /\ \A release \in StagingReleases : Entries(release) # {}

C25_Witness ==
    /\ pc = "returned"
    /\ fn_args.fn = "_create_vertex_buffer"
    /\ Entries(<< "gpu.execute", Object("_vertex_buffer") >>) # {}
    /\ Object("staging_buffer") \notin resources.live
    /\ Object("_vertex_buffer") \in resources.live

\* the layout in which the descriptor of the sampler declares the image
SamplerImageLayout == "ShaderReadOnlyOptimal"

\* the layout the copy command declares for the image
CopyImageLayout == "TransferDstOptimal"

\* the submissions the GPU has executed
Executions == {i \in 1 .. Len(trace) : trace[i].op = "gpu.execute"}

\* what the GPU executes during the texture upload, in the claimed order
TextureOrder ==
    << << "gpu.execute", Transition("Undefined", CopyImageLayout) >>,
       << "gpu.execute", Object("_texture_image") >>,
       << "gpu.execute", Transition(CopyImageLayout, SamplerImageLayout) >> >>

\* C26: during the texture upload the image goes undefined ->
\* transfer-destination before the buffer-to-image copy and
\* transfer-destination -> shader-read-only after it; each submission holds
\* one command and has been executed before the next one is submitted; the
\* copy executes with the image in transfer-destination, every barrier names
\* the layout the image is in, and the image is in the layout of the sampler
\* when the upload returns.
C26_TextureLayouts ==
    (pc \in {"upload_run", "returned", "fatal"} /\ fn_args.fn = "_create_texture_image") =>
        /\ Len(resources.pending) <= 1
        /\ \A i \in Executions :
              /\ Len(trace[i].arg) = 1
              /\ \E k \in 1 .. Len(TextureOrder) : TextureOrder[k][2] = trace[i].obj
              /\ LET command == trace[i].arg[1]
                 IN  IF command.op = "pipelineBarrier"
                     THEN command.arg[1] = trace[i].layout
                     ELSE /\ command.op = "copyBufferToImage"
                          /\ trace[i].layout = CopyImageLayout
        /\ \A k \in 1 .. (Len(TextureOrder) - 1) :
              Precedes(TextureOrder[k], TextureOrder[k + 1])
        /\ \A k \in 1 .. Len(TextureOrder) : Cardinality(Entries(TextureOrder[k])) <= 1
        /\ pc = "returned" =>
              /\ \A k \in 1 .. Len(TextureOrder) : Entries(TextureOrder[k]) # {}
              /\ resources.layout = SamplerImageLayout

C26_Witness ==
    /\ pc = "returned"
    /\ fn_args.fn = "_create_texture_image"
    /\ Cardinality(Executions) = 3
    /\ resources.layout = SamplerImageLayout

\* the successful calls of the log that create a buffer or an image, that
\* allocate memory, and that bind memory to the buffer or image x
Creations ==
    {i \in 1 .. Len(trace) :
        trace[i].op \in {"createBuffer", "createImage"} /\ trace[i].result = Success}

Allocations ==
    {i \in 1 .. Len(trace) :
        trace[i].op = "allocateMemory" /\ trace[i].result = Success}

Binds ==
    {i \in 1 .. Len(trace) :
        trace[i].op \in {"bindBufferMemory", "bindImageMemory"}}

BindsOf(x) ==
    {i \in Binds : trace[i].result = Success /\ x \in {trace[i].obj, trace[i].arg}}

\* the buffers, images and memories a call of the log maps, copies or
\* transitions
UsedBy(call) ==
    CASE call.op \in {"mapMemory", "memcpy", "unmapMemory"} -> {call.obj}
      [] call.op \in {"copyBuffer", "copyBufferToImage"} -> {call.obj, call.arg}
      [] call.op = "pipelineBarrier" -> {call.obj}
      [] OTHER -> {}

\* C27: every buffer and image an upload function creates has its memory
\* bound exactly once: the bind is the call that follows the allocation of
\* that memory, no bind is made without it, no resource or memory is bound
\* twice, every map, copy and transition uses bound resources only, and
\* every resource is bound when the function returns.
C27_BoundOnceAfterAllocation ==
    pc \in {"upload_run", "returned", "fatal"} =>
        /\ \A i \in Allocations :
              i < Len(trace) => (i + 1 \in Binds /\ trace[i + 1].arg = trace[i].obj)
        /\ \A j \in Binds :
              /\ j - 1 \in Allocations
              /\ trace[j - 1].obj = trace[j].arg
              /\ j - 2 \in Creations
              /\ trace[j - 2].obj = trace[j].obj
        /\ \A j \in Binds : \A x \in {trace[j].obj, trace[j].arg} :
              Cardinality(BindsOf(x)) <= 1
        /\ \A i \in 1 .. Len(trace) : \A x \in UsedBy(trace[i]) :
              \E j \in BindsOf(x) : j < i
        /\ pc = "returned" =>
              \A i \in Creations \cup Allocations :
                 Cardinality(BindsOf(trace[i].obj)) = 1

C27_Witness ==
    /\ pc = "returned"
    /\ fn_args.fn = "_create_texture_image"
    /\ BindsOf(Object("_texture_image")) # {}
    /\ BindsOf(Object("staging_buffer")) # {}
    /\ << Object("_texture_image"), Object("_texture_image_memory") >> \in resources.bound

----------------------------------------------------------------------------
(* Properties of the uniform buffers                                       *)

\* the calls of the upload functions that make op on obj
InitCallsOf(op, obj) ==
    UNION {{<< step, i >> : i \in {k \in DOMAIN ProgramOf(step) :
                                     /\ ProgramOf(step)[k].op = op
                                     /\ ProgramOf(step)[k].obj = obj}} :
             step \in UploadSteps}

\* the memory of the uniform buffer of every slot is mapped by one call, of
\* _create_uniform_buffers, and unmapped by none
MappedOnceAtCreation ==
    \A f \in Slots :
       LET memory == Element("_uniform_buffers_memory", f)
       IN  /\ Cardinality(InitCallsOf("mapMemory", memory)) = 1
           /\ \A c \in InitCallsOf("mapMemory", memory) :
                 c[1] = "_create_uniform_buffers"
           /\ InitCallsOf("unmapMemory", memory) = {}

\* the updates of the uniform buffer in the call log of the iteration
UniformWrites == {i \in 1 .. Len(trace) : trace[i].op = "uniformBuffer.memcpy"}

\* C28: the memory of the uniform buffer of every frame slot is mapped by
\* exactly one call, made by _create_uniform_buffers, and by no call
\* unmapped; it is mapped in every state of the frame loop, no step of the
\* loop maps or unmaps memory, and the update of an iteration on slot f
\* writes through the mapping of slot f only.
C28_PersistentMapping ==
    /\ MappedOnceAtCreation
    /\ \A f \in Slots : Element("_uniform_buffers_memory", f) \in resources.mapped
    /\ \A i \in 1 .. Len(trace) : trace[i].op \notin {"mapMemory", "unmapMemory"}
    /\ \A i \in UniformWrites :
          /\ trace[i].target = Element("_uniform_buffers_memory", trace[i].slot)
          /\ trace[i].target \in resources.mapped
          /\ pc \in {"submit", "present"} => trace[i].slot = _current_frame
    /\ Cardinality(UniformWrites) <= 1

C28_Witness ==
    /\ pc = "present"
    /\ _current_frame = 1
    /\ \E i \in UniformWrites :
          trace[i].target = Element("_uniform_buffers_memory", 1)
    /\ resources.mapped =
          {Element("_uniform_buffers_memory", f) : f \in Slots}

----------------------------------------------------------------------------
(* Properties of the selection among devices of equal score                *)

\* the enumerated devices that share the highest score
HighestScored ==
    { i \in 1 .. Len(devices) :
        \A j \in 1 .. Len(devices) : ClaimScore(devices[j]) <= ClaimScore(devices[i]) }

\* every enumerated device is suitable
AllSuitable == SuitableDevices = 1 .. Len(devices)

\* C29: when several suitable devices share the highest score, the device
\* left selected by _create_physical_device is the one of them that was
\* enumerated first.
C29_TieSelectsEarliest ==
    (PhysicalDeviceSelected /\ AllSuitable) =>
        /\ _physical_device \in HighestScored
        /\ \A i \in HighestScored : _physical_device <= i

\* what the code does: of the devices that share the highest score the one
\* enumerated last is left selected
TieSelectsLatest ==
    (PhysicalDeviceSelected /\ AllSuitable) =>
        /\ _physical_device \in HighestScored
        /\ \A i \in HighestScored : i <= _physical_device

\* two suitable devices of equal score were enumerated and a device was selected
TieSelected ==
    /\ PhysicalDeviceSelected
    /\ AllSuitable
    /\ Cardinality(HighestScored) = 2

----------------------------------------------------------------------------
(* Properties of the surface format selection                              *)

\* the entry is B8G8R8A8 sRGB with the sRGB-nonlinear color space
IsPreferredFormat(entry) ==
    entry.format = "B8G8R8A8Srgb" /\ entry.colorSpace = "SrgbNonlinear"

\* C30: for every non-empty list of reported formats the result of
\* _choose_swap_surface_format is the first entry that is B8G8R8A8 sRGB with
\* the sRGB-nonlinear color space if the list has such an entry, and the
\* first entry of the list otherwise.
C30_SurfaceFormatSelection ==
    (pc = "returned" /\ fn_ret.fn = "choose_swap_surface_format") =>
        LET fs == fn_args.available_formats
        IN  IF \E i \in 1 .. Len(fs) : IsPreferredFormat(fs[i])
            THEN \E i \in 1 .. Len(fs) :
                    /\ IsPreferredFormat(fs[i])
                    /\ \A j \in 1 .. (i - 1) : ~IsPreferredFormat(fs[j])
                    /\ fn_ret.surface_format = fs[i]
            ELSE fn_ret.surface_format = fs[1]

\* C30 witness: the preferred entry is the last of three, after an entry of
\* the same format with another color space, and it is the result.
C30_Witness ==
    /\ pc = "returned"
    /\ fn_ret.fn = "choose_swap_surface_format"
    /\ Len(fn_args.available_formats) = 3
    /\ fn_args.available_formats[1] =
          [format |-> "B8G8R8A8Srgb", colorSpace |-> "ExtendedSrgbLinear"]
    /\ ~IsPreferredFormat(fn_args.available_formats[2])
    /\ IsPreferredFormat(fn_args.available_formats[3])
    /\ fn_ret.surface_format = fn_args.available_formats[3]

\* the fallback happens: no entry is preferred and entry 0 is the result
FormatFallbackTaken ==
    /\ pc = "returned"
    /\ fn_ret.fn = "choose_swap_surface_format"
    /\ Len(fn_args.available_formats) = 2
    /\ \A i \in 1 .. 2 : ~IsPreferredFormat(fn_args.available_formats[i])
    /\ fn_args.available_formats[1] # fn_args.available_formats[2]
    /\ fn_ret.surface_format = fn_args.available_formats[1]

----------------------------------------------------------------------------
(* Properties of the present mode selection                                *)

\* the modes of the list given to _choose_swap_present_mode
ReportedModes ==
    {fn_args.available_present_modes[i] :
        i \in 1 .. Len(fn_args.available_present_modes)}

\* C31: for every list of reported present modes the result of
\* _choose_swap_present_mode is mailbox if the list contains mailbox, and
\* FIFO otherwise.
C31_PresentModeSelection ==
    (pc = "returned" /\ fn_ret.fn = "choose_swap_present_mode") =>
        fn_ret.present_mode = (IF "Mailbox" \in ReportedModes THEN "Mailbox" ELSE "Fifo")

\* C31 witness: mailbox is the last of three reported modes, after FIFO, and
\* it is the result.
C31_Witness ==
    /\ pc = "returned"
    /\ fn_ret.fn = "choose_swap_present_mode"
    /\ fn_args.available_present_modes = << "Fifo", "Immediate", "Mailbox" >>
    /\ fn_ret.present_mode = "Mailbox"

\* the fallback happens: neither mailbox nor FIFO is reported and FIFO is
\* the result
PresentModeFallbackTaken ==
    /\ pc = "returned"
    /\ fn_ret.fn = "choose_swap_present_mode"
    /\ ReportedModes = {"Immediate"}
    /\ fn_ret.present_mode = "Fifo"

----------------------------------------------------------------------------
(* Properties of the host writes to the resources of a frame slot          *)

\* the calls of _draw_frame that write the command buffer or the uniform
\* buffer of the slot; the descriptor sets are written by
\* _create_descriptor_sets only
HostWrites == {"commandBuffer.reset", "commandBuffer.record", "uniformBuffer.memcpy"}

\* the host is at a call that writes a resource of the current slot, or
\* between two of them
WritesSlotResources == pc \in {"reset_cmd", "record", "update_ubo"}

\* the entries of the log of the iteration that are successful calls of op
Successful(op) ==
    {i \in 1 .. Len(trace) : trace[i].op = op /\ trace[i].result = Success}

\* C32: the host writes the command buffer and the uniform buffer of slot f
\* only while no submission of slot f is pending: every such write follows,
\* in its iteration, a wait on the fence of f that returned, no submission
\* lies between that wait and the write, no write follows the submission of
\* the iteration, and no descriptor set is written in the frame loop; this
\* holds for the iteration that follows a recreation on the same slot too.
C32_NoWriteWhileInFlight ==
    /\ WritesSlotResources => inflight[_current_frame] = 0
    /\ \A i \in 1 .. Len(trace) :
          trace[i].op \in HostWrites =>
             /\ \E j \in Successful("waitForFences") :
                   j < i /\ trace[j].slot = trace[i].slot
             /\ \A k \in Successful("queue.submit") : i < k
    /\ \A i \in 1 .. Len(trace) : trace[i].op # "updateDescriptorSets"
    /\ created._descriptor_sets = "_init_vulkan"

\* C32 witness: slot 0 is in use again, its command buffer re-recorded and
\* its uniform buffer written, while the submission of slot 1 is pending.
C32_Witness ==
    /\ pc = "submit"
    /\ _current_frame = 0
    /\ inflight[1] > 0
    /\ inflight[0] = 0
    /\ \A op \in HostWrites : \E i \in 1 .. Len(trace) : trace[i].op = op

----------------------------------------------------------------------------
(* Properties of the fences                                                *)

\* the host has reset the fence of the current slot and has not yet made
\* the submission that signals it
BetweenResetAndSubmit == pc \in {"reset_cmd", "record", "update_ubo", "submit"}

\* the fence of slot f is either signaled, or a submission that signals it
\* is pending, or the host is on its way from the reset to that submission,
\* or the process has ended
FenceWillBeSignaled(f) ==
    \/ fence[f]
    \/ inflight[f] > 0
    \/ f = _current_frame /\ BetweenResetAndSubmit
    \/ pc = "fatal"

\* the wait on the fence of slot f is the first one: the command buffer of
\* the slot has never been recorded
FirstWaitOn(f) == pc = "wait_fence" /\ _current_frame = f /\ cmd[f] = "initial"

\* C33: a fence that was reset is signaled by a submission of the same
\* iteration on every path that does not end the process, so a host waiting
\* on an unsignaled fence always has a signalling submission pending; the
\* first wait on a slot finds the fence signaled; and with a GPU that
\* completes what was submitted the fence the host waits on becomes signaled.
C33_NoFenceDeadlock ==
    /\ [](\A f \in Slots : FenceWillBeSignaled(f))
    /\ [](\A f \in Slots : FirstWaitOn(f) => fence[f])
    /\ \A f \in Slots :
          (pc = "wait_fence" /\ _current_frame = f) ~> (fence[f] \/ pc = "fatal")

\* C33 witness: the host waits on the unsignaled fence of a slot whose
\* submission is pending.
C33_Witness ==
    /\ pc = "wait_fence"
    /\ ~fence[_current_frame]
    /\ inflight[_current_frame] > 0

----------------------------------------------------------------------------
(* Properties of the destruction of the swapchain objects                  *)

\* the step gives a new handle to a wrapper that still holds a handle
\* _cleanup_swap_chain has destroyed: the wrapper destroys it once more
DestroyedAgain(held, held_after) == held = "destroyed" /\ held_after = "live"

\* the calls that use the chain, its image views or its framebuffers
UsesSwapchainObjects == pc \in {"acquire", "record", "submit", "present"}

SwapchainObjectsLive ==
    /\ swapchain.chain = "live"
    /\ swapchain.views = "live"
    /\ swapchain.framebuffers = "live"

\* C34: the chain, the image views and the framebuffers are destroyed once:
\* no step destroys again a handle the recreation cleanup has destroyed,
\* neither when the rebuild assigns the wrapper nor when the members are
\* destroyed at exit, and no call uses a destroyed handle.
C34_DestroyedExactlyOnce ==
    [][ /\ ~DestroyedAgain(swapchain.chain, swapchain'.chain)
        /\ ~DestroyedAgain(swapchain.views, swapchain'.views)
        /\ ~DestroyedAgain(swapchain.framebuffers, swapchain'.framebuffers)
        /\ (pc = "destroy_members" \/ UsesSwapchainObjects) => SwapchainObjectsLive
      ]_vars

\* what the code does: every rebuild step of a recreation assigns a wrapper
\* whose handle was destroyed by _cleanup_swap_chain, while the calls of the
\* frame and the destruction at exit find live handles
RebuildDestroysAgain ==
    [][ /\ (pc = "rc_create_swap_chain" /\ swapchain'.chain = "live")
              => DestroyedAgain(swapchain.chain, swapchain'.chain)
        /\ (pc = "rc_create_image_views" /\ swapchain'.views = "live")
              => DestroyedAgain(swapchain.views, swapchain'.views)
        /\ (pc = "rc_create_framebuffers" /\ swapchain'.framebuffers = "live")
              => DestroyedAgain(swapchain.framebuffers, swapchain'.framebuffers)
        /\ (pc = "destroy_members" \/ UsesSwapchainObjects) => SwapchainObjectsLive
      ]_vars

----------------------------------------------------------------------------
(* Properties of the use of the binary semaphores                          *)

\* the acquire of the iteration returns an image: the image-available
\* semaphore of the slot is handed to the presentation engine
AcquireHandsSemaphore == pc = "acquire" /\ pc' = "reset_fence"

\* the submission of the iteration is accepted: it will signal the
\* render-finished semaphore of the slot
SubmitSignalsSemaphore == pc = "submit" /\ pc' = "present"

\* C35: the image-available semaphore of a slot is handed to an acquire only
\* when the submission that waits on its previous signal has completed, and
\* a submission that signals the render-finished semaphore of a slot is made
\* only when no present that waits on that semaphore has its wait still to
\* execute.
C35_BinarySemaphoreDiscipline ==
    [][ /\ AcquireHandsSemaphore =>
              /\ ~_image_available_semaphores[_current_frame]
              /\ inflight[_current_frame] = 0
        /\ SubmitSignalsSemaphore =>
              /\ ~_render_finished_semapahores[_current_frame]
              /\ presenting[_current_frame] = NotPresenting
      ]_vars

\* what the code does guarantee: the image-available semaphore is free at
\* every acquire, and for the render-finished semaphore a wait has been
\* enqueued for every signal enqueued before
SemaphoresPairedWhenEnqueued ==
    [][ /\ AcquireHandsSemaphore =>
              /\ ~_image_available_semaphores[_current_frame]
              /\ inflight[_current_frame] = 0
        /\ SubmitSignalsSemaphore => ~_render_finished_semapahores[_current_frame]
      ]_vars

\* a recreation leaves no present with its wait still to execute
NoPresentWaitAfterIdle ==
    pc \in {"rc_cleanup", "rc_create_swap_chain", "rc_create_image_views",
            "rc_create_framebuffers"}
        => \A f \in Slots : presenting[f] = NotPresenting

\* the host is about to submit on a slot whose previous present, of another
\* image, has its semaphore wait still to execute
SubmitWhilePresentWaits ==
    /\ pc = "submit"
    /\ presenting[_current_frame] # NotPresenting
    /\ presenting[_current_frame] # image_index
    /\ inflight[_current_frame] = 0

----------------------------------------------------------------------------
(* Properties of the number of frames in flight                            *)

RECURSIVE InFlightFrom(_)
\* the submissions of the slots f, f + 1, ... the GPU has not completed
InFlightFrom(f) ==
    IF f >= s_max_frames_in_flight THEN 0 ELSE inflight[f] + InFlightFrom(f + 1)

\* C36: at most s_max_frames_in_flight submissions are incomplete on the
\* GPU, at most one of them per frame slot, and the host is at the submit
\* of a slot only when no earlier submission of that slot is incomplete.
C36_FramesInFlightBounded ==
    /\ InFlightFrom(0) <= s_max_frames_in_flight
    /\ \A f \in Slots : inflight[f] <= 1
    /\ pc = "submit" => inflight[_current_frame] = 0

\* C36 witness: a submission of each slot is incomplete while the host
\* waits for the fence of the slot it wants to use next.
C36_Witness ==
    /\ pc = "wait_fence"
    /\ \A f \in Slots : inflight[f] = 1
    /\ InFlightFrom(0) = s_max_frames_in_flight
    /\ ~fence[_current_frame]

----------------------------------------------------------------------------
(* Properties of the per-image objects of the swapchain                    *)

\* the recreation has destroyed the objects of the chain and not yet
\* rebuilt all of them
Rebuilding ==
    pc \in {"rc_create_swap_chain", "rc_create_image_views", "rc_create_framebuffers"}

\* C37: whenever the chain, its views and its framebuffers are built (after
\* initialization and after every recreation) there are as many framebuffers
\* as image views as swapchain images, the views are on the images of the
\* current chain, the framebuffers are on these views with the current
\* extent, and the image index a recording selects a framebuffer with is
\* smaller than the number of framebuffers.
C37_FramebuffersMatchChain ==
    /\ SwapchainObjectsLive =>
          /\ swapchain.n_framebuffers = swapchain.n_views
          /\ swapchain.n_views = swapchain.n_images
          /\ swapchain.view_images = "current"
          /\ swapchain.framebuffer_views = "current"
          /\ swapchain.framebuffer_extent = swapchain.extent
    /\ UsesSwapchainObjects => SwapchainObjectsLive
    /\ pc = "record" => image_index \in 0 .. (swapchain.n_framebuffers - 1)

\* C37 witness: a recording selects the last framebuffer of a chain of more
\* than one image that a recreation built: every chain of the initialization
\* has the extent InitialSize, this one has another.
C37_Witness ==
    /\ pc = "record"
    /\ swapchain.n_images > 1
    /\ image_index = swapchain.n_framebuffers - 1
    /\ swapchain.extent # InitialSize

\* between the cleanup and the end of the rebuild the counts can differ
CountsDifferWhileRebuilding ==
    /\ Rebuilding
    /\ swapchain.n_framebuffers # swapchain.n_images

----------------------------------------------------------------------------
(* Properties of the resize notifications                                  *)

\* between the delivery of a resize and the present step only the callback
\* and the present step change the resize flag
FlagKeptUntilPresent ==
    [][ (~ResizeDelivered /\ ~PresentStep) =>
           _framebuffer_resized' = _framebuffer_resized ]_vars

\* C38: no resize notification is lost: a step that delivers a resize
\* callback, in the event polling before a frame or in the window-event wait
\* of a recreation that has cleared the flag, leaves the resize flag set and
\* the loop running; the flag stays set until an iteration reaches the
\* present step, and that present step starts a swapchain recreation.
C38_NoResizeLost ==
    [][ /\ ResizeDelivered => (_framebuffer_resized' /\ pc' # "fatal")
        /\ (_framebuffer_resized /\ ~PresentStep) => _framebuffer_resized'
        /\ (_framebuffer_resized /\ PresentStep) => pc' = "rc_get_size" ]_vars

\* an iteration ends after a successful present, without a recreation and
\* with the flag clear, on a chain of the initial extent, while the
\* framebuffer has another size than the one the window was created with
ResizeUnanswered ==
    /\ pc = "loop_check"
    /\ win_size # InitialSize
    /\ Len(trace) > 0
    /\ trace[Len(trace)].op = "queue.presentKHR"
    /\ trace[Len(trace)].result = Success
    /\ swapchain.extent = InitialSize
    /\ ~_framebuffer_resized

====
